---- MODULE Spec2Model ----
(***************************************************************************)
(* Order object builder and hash/signature pipeline of the Extended SDK.   *)
(* Two builders are modelled, each from its own source:                    *)
(*   services.createOrderObject  (account-bound signer, fee cache)         *)
(*   orders.CreateOrderObject    (caller-supplied signer, default fees)    *)
(* A build call is split at its two external calls (hash primitive and     *)
(* signer), so that what has been invoked at each moment is observable.    *)
(* Further specifications over the same variables: SpecPresence            *)
(* (PlaceOrder, absent and zero expiry and nonce), SpecFees (the           *)
(* fee cache under arbitrary writes), SpecLock (goroutines on the caches   *)
(* of two accounts and their RWMutex), SpecTwice (one call after another)  *)
(* and SpecReference (the values of the test suite).                       *)
(*                                                                         *)
(* Strings are sequences of one-character strings.  Decimals are exact     *)
(* fractions num/den (shopspring/decimal); the inputs have a power of ten  *)
(* as den, products are kept in lower terms.  A time.Time is (sec, nsec)   *)
(* counted from the Unix epoch, or, when its flag is set, from the Go zero *)
(* instant (January 1, year 1 UTC).  Durations that the code adds to       *)
(* instants are whole seconds and are kept in seconds.  For instants       *)
(* counted from the Unix epoch all numbers stay far below the int64 range, *)
(* so IntPart and UnixNano never wrap there.                               *)
(***************************************************************************)
EXTENDS Integers, Sequences, FiniteSets, TLC

VARIABLES account, pc, builder, params, fees, loc, hashCalls, order_hash,
          signCalls, order, err,
          config,        \* PlaceOrder: its option set and call time, while it runs
          prev,          \* history: the last build call that returned an order
          lastWritten,   \* history: per market name, the last entry written
          accounts,      \* concurrent use: the accounts shared by goroutines
          tradingFeeMu,  \* concurrent use: each account's sync.RWMutex
          procs          \* concurrent use: where each goroutine is

lockVars == <<accounts, tradingFeeMu, procs>>

vars == <<account, pc, builder, params, fees, loc, hashCalls, order_hash,
          signCalls, order, err, config, prev, lastWritten, lockVars>>

(***************************************************************************)
(* Optional (pointer) values                                               *)
(***************************************************************************)
None == [nil |-> TRUE]

Some(x) == [v |-> x]

IsNil(o) == "nil" \in DOMAIN o

(***************************************************************************)
(* fmt.Sprintf("%d", n) and fmt.Sprintf("0x%x", n)                         *)
(***************************************************************************)
DigitChar == <<"0", "1", "2", "3", "4", "5", "6", "7", "8", "9",
               "a", "b", "c", "d", "e", "f">>

RECURSIVE Digits(_, _)
Digits(n, base) ==
    IF n < base THEN <<DigitChar[n + 1]>>
    ELSE Digits(n \div base, base) \o <<DigitChar[(n % base) + 1]>>

FmtD(n) == IF n < 0 THEN <<"-">> \o Digits(-n, 10) ELSE Digits(n, 10)

FmtHex(n) == <<"0", "x">> \o (IF n < 0 THEN <<"-">> \o Digits(-n, 16) ELSE Digits(n, 16))

(***************************************************************************)
(* uint64 and int of 64 bits.  A uint64 is kept as its decimal digits, the *)
(* most significant first; an int as a sign and the digits of its          *)
(* magnitude.                                                              *)
(***************************************************************************)
RECURSIVE Uint64(_)
Uint64(n) == IF n < 10 THEN <<n>> ELSE Uint64(n \div 10) \o <<n % 10>>

\* 2^63 and 2^64
TwoPow63 == <<9, 2, 2, 3, 3, 7, 2, 0, 3, 6, 8, 5, 4, 7, 7, 5, 8, 0, 8>>

TwoPow64 == <<1, 8, 4, 4, 6, 7, 4, 4, 0, 7, 3, 7, 0, 9, 5, 5, 1, 6, 1, 6>>

WideLess(a, b) ==
    \/ Len(a) < Len(b)
    \/ /\ Len(a) = Len(b)
       /\ \E i \in 1..Len(a) : a[i] < b[i] /\ \A j \in 1..(i - 1) : a[j] = b[j]

RECURSIVE StripZeros(_)
StripZeros(a) == IF Len(a) > 1 /\ a[1] = 0 THEN StripZeros(Tail(a)) ELSE a

\* a - b digit by digit, for sequences of the same length with a >= b
RECURSIVE SubDigits(_, _, _)
SubDigits(a, b, borrow) ==
    IF a = <<>> THEN <<>>
    ELSE LET n == Len(a)
             d == a[n] - b[n] - borrow
         IN  SubDigits(SubSeq(a, 1, n - 1), SubSeq(b, 1, n - 1), IF d < 0 THEN 1 ELSE 0)
                 \o <<IF d < 0 THEN d + 10 ELSE d>>

WideSub(a, b) ==
    StripZeros(SubDigits(a, [i \in 1..(Len(a) - Len(b)) |-> 0] \o b, 0))

\* int(v) for a uint64 v where int has 64 bits: the same bit pattern read in
\* two's complement
IntOfUint64(v) ==
    IF WideLess(v, TwoPow63) THEN [neg |-> FALSE, mag |-> v]
    ELSE [neg |-> TRUE, mag |-> WideSub(TwoPow64, v)]

\* fmt.Sprintf("%d", v) for a uint64 and for an int
FmtUint64(v) == [i \in 1..Len(v) |-> DigitChar[v[i] + 1]]

FmtInt(n) == IF n.neg THEN <<"-">> \o FmtUint64(n.mag) ELSE FmtUint64(n.mag)

(***************************************************************************)
(* shopspring/decimal                                                      *)
(***************************************************************************)
Dec(n, d) == [num |-> n, den |-> d]

NewFromInt(n) == Dec(n, 1)

RECURSIVE GCD(_, _)
GCD(a, b) == IF b = 0 THEN a ELSE GCD(b, a % b)

\* the exact product; factors common to a numerator and the other
\* denominator are cancelled before multiplying
DecMul(a, b) ==
    LET g1 == GCD(IF a.num < 0 THEN -a.num ELSE a.num, b.den)
        g2 == GCD(IF b.num < 0 THEN -b.num ELSE b.num, a.den)
    IN  Dec((a.num \div g1) * (b.num \div g2), (a.den \div g2) * (b.den \div g1))

DecAdd(a, b) == Dec(a.num * b.den + b.num * a.den, a.den * b.den)

DecCeil(d) == Dec(-((-d.num) \div d.den), 1)

DecFloor(d) == Dec(d.num \div d.den, 1)

IntPart(d) == IF d.num >= 0 THEN d.num \div d.den ELSE -((-d.num) \div d.den)

RECURSIVE FracDigits(_, _)
FracDigits(n, den) ==
    IF den = 1 THEN <<>>
    ELSE FracDigits(n \div 10, den \div 10) \o <<DigitChar[(n % 10) + 1]>>

RECURSIVE TrimZeros(_)
TrimZeros(s) ==
    IF s # <<>> /\ s[Len(s)] = "0" THEN TrimZeros(SubSeq(s, 1, Len(s) - 1)) ELSE s

DecString(d) ==
    LET a  == IF d.num < 0 THEN -d.num ELSE d.num
        fr == TrimZeros(FracDigits(a % d.den, d.den))
    IN  (IF d.num < 0 THEN <<"-">> ELSE <<>>)
        \o Digits(a \div d.den, 10)
        \o (IF fr = <<>> THEN <<>> ELSE <<".">> \o fr)

(***************************************************************************)
(* time                                                                    *)
(***************************************************************************)
Millisecond == 1000000

Second == 1000000000

HourSeconds == 3600

Time(s, n) == [zero |-> FALSE, sec |-> s, nsec |-> n]

ZeroTime == [zero |-> TRUE, sec |-> 0, nsec |-> 0]

IsZero(t) == t.zero /\ t.sec = 0 /\ t.nsec = 0

TimeAddSeconds(t, d) == [t EXCEPT !.sec = t.sec + d]

TruncateSecond(t) == [t EXCEPT !.nsec = 0]

After(a, b) == a.sec > b.sec \/ (a.sec = b.sec /\ a.nsec > b.nsec)

Unix(t) == t.sec

\* The Unix time of the Go zero instant is -62135596800, written here as
\* -(ZeroUnixHigh * ZeroUnixBase + ZeroUnixLow).
ZeroUnixBase == 100000

ZeroUnixHigh == 621355

ZeroUnixLow == 96800

RECURSIVE PadDigits(_, _)
PadDigits(n, width) ==
    IF width = 0 THEN <<>>
    ELSE PadDigits(n \div 10, width - 1) \o <<DigitChar[(n % 10) + 1]>>

\* fmt.Sprintf("%d", t.Unix()); for an instant counted from the Go zero
\* instant (and before the Unix epoch) the digits of 62135596800 - t.sec
\* are formed in two limbs
FmtUnix(t) ==
    IF ~t.zero THEN FmtD(Unix(t))
    ELSE LET low    == ZeroUnixLow - (t.sec % ZeroUnixBase)
             borrow == IF low < 0 THEN 1 ELSE 0
             high   == ZeroUnixHigh - (t.sec \div ZeroUnixBase) - borrow
         IN  <<"-">> \o Digits(high, 10) \o PadDigits(low + borrow * ZeroUnixBase, 5)

\* time.Time{}.UnixNano() / int64(time.Millisecond): the nanosecond count
\* of the zero instant wraps in int64 to -6795364578871345152
ZeroTimeUnixMilli ==
    <<"-", "6", "7", "9", "5", "3", "6", "4", "5", "7", "8", "8", "7", "1">>

\* t.UnixNano() / int64(d) for a d that divides Second: Go's truncating
\* division of sec*Second + nsec, evaluated on the two fields so that the
\* nanosecond count itself is never formed.
UnixNanoDiv(t, d) ==
    IF t.sec >= 0 THEN t.sec * (Second \div d) + t.nsec \div d
    ELSE -((-t.sec - 1) * (Second \div d) + (Second - t.nsec) \div d)

(***************************************************************************)
(* models: enumerations, default fees, markets                             *)
(***************************************************************************)
OrderSideBuy == "BUY"

OrderSideSell == "SELL"

TimeInForceGTT == "GTT"

TimeInForceFOK == "FOK"

TimeInForceIOC == "IOC"

OrderTypeLimit == "LIMIT"

OrderTypeMarket == "MARKET"

SelfTradeProtectionAccount == "ACCOUNT"

SelfTradeProtectionClient == "CLIENT"

TpSlTypeOrder == "ORDER"

TpSlTriggerParam(triggerPrice, price) ==
    [TriggerPrice     |-> triggerPrice,
     TriggerPriceType |-> "LAST",
     Price            |-> price,
     PriceType        |-> "LIMIT"]

DefaultFees ==
    [Market         |-> "BTC-USD",
     MakerFeeRate   |-> Dec(2, 10000),
     TakerFeeRate   |-> Dec(5, 10000),
     BuilderFeeRate |-> Dec(0, 1)]

MarketModel(name, cid, cres, sid, sres) ==
    [Name     |-> name,
     L2Config |-> [CollateralID         |-> cid,
                   CollateralResolution |-> cres,
                   SyntheticID          |-> sid,
                   SyntheticResolution  |-> sres]]

(***************************************************************************)
(* Input domains of the model                                              *)
(***************************************************************************)
MarketNames == {"BTC-USD", "ETH-USD"}

Markets ==
    {MarketModel("BTC-USD", <<"0", "x", "1">>, 10, <<"0", "x", "2">>, 1),
     MarketModel("ETH-USD", <<"0", "x", "1">>, 100, <<"0", "x", "3">>, 10)}

MaxAmountTenths == 25

MaxPrice == 7

SyntheticAmounts == {Dec(1, 10), Dec(MaxAmountTenths, 10)}

Prices == {Dec(3, 10), Dec(MaxPrice, 1)}

BuilderFees == {None, Some(Dec(1, 1000))}

Sides == {OrderSideBuy, OrderSideSell, ""}

TimesInForce == {TimeInForceGTT, TimeInForceIOC, TimeInForceFOK, ""}

ExpireTimes == {Time(1, 0), Time(1, 860694000), Time(-1, 999500000)}

Nows == {Time(0, 500)}

ExternalIDs == {None, Some(<<"e", "x", "t">>)}

Nonces == {1473}

StarknetDomain ==
    [Name     |-> <<"P", "e", "r", "p">>,
     Version  |-> <<"v", "0">>,
     ChainID  |-> <<"S", "N">>,
     Revision |-> <<"1">>]

CachedFees ==
    {[Market         |-> m,
      MakerFeeRate   |-> Dec(0, 1),
      TakerFeeRate   |-> Dec(1, 1000),
      BuilderFeeRate |-> Dec(0, 1)] : m \in MarketNames}

SigPairs == {<<0, 1>>, <<255, 4096>>}

HashOutcomes == {"ok", "err", "empty"}

(***************************************************************************)
(* client.StarkPerpetualAccount                                            *)
(***************************************************************************)
NewStarkPerpetualAccount(vault, privateKeyHex, publicKeyHex) ==
    [vault      |-> vault,
     privateKey |-> privateKeyHex,
     publicKey  |-> publicKeyHex,
     tradingFee |-> [m \in MarketNames |-> None]]

Vault(s) == s.vault

PublicKey(s) == s.publicKey

GetTradingFee(s, marketName) ==
    IF ~IsNil(s.tradingFee[marketName]) THEN s.tradingFee[marketName].v
    ELSE DefaultFees

SignRejects(msgHash) == msgHash = <<>>

\* mutant: the entry is stored under the market named inside the fee
SetTradingFee_map_byMarket(tradingFee, marketName, fee) ==
    [tradingFee EXCEPT ![fee.Market] = Some(fee)]

\* s.tradingFee[marketName] = fee
SetTradingFee_map(tradingFee, marketName, fee) ==
    [tradingFee EXCEPT ![marketName] = Some(fee)]

\* for market, fee := range fees { s.tradingFee[market] = fee }
SetTradingFees_map(tradingFee, batch) ==
    [m \in DOMAIN tradingFee |->
        IF m \in DOMAIN batch THEN Some(batch[m]) ELSE tradingFee[m]]

\* Goroutines that share accounts, and the state of a sync.RWMutex: the
\* goroutines holding it for reading, the one holding it for writing, and
\* the one that has announced a Lock and waits for the readers to leave.
AccountIds == {1, 2}

Goroutines == {"g1", "g2", "g3"}

NoGoroutine == "none"

NewRWMutex == [readers |-> {}, writer |-> NoGoroutine, pending |-> NoGoroutine]

Outside == [at |-> "outside"]

\* sync.RWMutex: what a call of RLock or Lock by goroutine g does to the
\* mutex mu.  A call that has to wait for a writer is blocked; a Lock that
\* finds readers inside is announced (pending) and is granted when the
\* last of them has left.
RWMutex_RLock(mu, g) ==
    IF mu.writer # NoGoroutine \/ mu.pending # NoGoroutine
    THEN [blocked |-> TRUE, held |-> FALSE, mu |-> mu]
    ELSE [blocked |-> FALSE, held |-> TRUE, mu |-> [mu EXCEPT !.readers = @ \cup {g}]]

RWMutex_RUnlock(mu, g) == [mu EXCEPT !.readers = @ \ {g}]

RWMutex_Lock(mu, g) ==
    IF mu.writer # NoGoroutine \/ mu.pending # NoGoroutine
    THEN [blocked |-> TRUE, held |-> FALSE, mu |-> mu]
    ELSE IF mu.readers = {}
    THEN [blocked |-> FALSE, held |-> TRUE, mu |-> [mu EXCEPT !.writer = g]]
    ELSE [blocked |-> FALSE, held |-> FALSE, mu |-> [mu EXCEPT !.pending = g]]

RWMutex_Unlock(mu, g) == [mu EXCEPT !.writer = NoGoroutine]

\* mutant: GetTradingFee reads without waiting for a writer to leave
GetTradingFee_acquire_unguarded(mu, g) ==
    [blocked |-> FALSE, held |-> TRUE, mu |-> [mu EXCEPT !.readers = @ \cup {g}]]

\* s.tradingFeeMu.RLock() in GetTradingFee
GetTradingFee_acquire(mu, g) == RWMutex_RLock(mu, g)

\* mutant: the writers take the mutex for reading
SetTradingFee_acquire_shared(mu, g) == RWMutex_RLock(mu, g)

\* s.tradingFeeMu.Lock() in SetTradingFee and SetTradingFees
SetTradingFee_acquire(mu, g) == RWMutex_Lock(mu, g)

(***************************************************************************)
(* External primitives: the order hash is an opaque, injective function    *)
(* of the fourteen arguments in their order.                               *)
(***************************************************************************)
RECURSIVE JoinArgs(_)
JoinArgs(args) ==
    IF args = <<>> THEN <<>>
    ELSE <<"|">> \o Head(args) \o JoinArgs(Tail(args))

GetOrderHash(args) == <<"h">> \o JoinArgs(args)

(***************************************************************************)
(* services.createOrderObject and services.HashOrder                       *)
(***************************************************************************)
BufferSeconds == 14 * 24 * HourSeconds

services_validate(p) ==
    IF p.Side # OrderSideBuy /\ p.Side # OrderSideSell THEN "InvalidSide"
    ELSE IF p.TimeInForce = TimeInForceFOK THEN "UnsupportedTimeInForce"
    ELSE IF p.TimeInForce # TimeInForceGTT /\ p.TimeInForce # TimeInForceIOC
         THEN "UnsupportedTimeInForce"
    ELSE IF IsZero(p.ExpireTime) THEN "MissingExpiry"
    ELSE ""

services_is_buying_synthetic(p) == p.Side = OrderSideBuy

services_total_fee(p, f) ==
    IF ~IsNil(p.BuilderFee) THEN DecAdd(f.TakerFeeRate, p.BuilderFee.v)
    ELSE f.TakerFeeRate

\* mutant: rounds down for either side
services_round_floor(is_buying_synthetic, d) == DecFloor(d)

services_round(is_buying_synthetic, d) ==
    IF is_buying_synthetic THEN DecCeil(d) ELSE DecFloor(d)

services_stark_fee_part(fee_amount, market) ==
    IntPart(DecCeil(DecMul(fee_amount, NewFromInt(market.L2Config.CollateralResolution))))

\* mutant: the collateral amount of a Buy keeps its sign
services_sign_collateral_kept(is_buying_synthetic, stark_collateral_amount) ==
    stark_collateral_amount

services_sign_collateral(is_buying_synthetic, stark_collateral_amount) ==
    IF is_buying_synthetic THEN -stark_collateral_amount ELSE stark_collateral_amount

services_sign_synthetic(is_buying_synthetic, stark_synthetic_amount) ==
    IF is_buying_synthetic THEN stark_synthetic_amount ELSE -stark_synthetic_amount

services_quantize(p, f) ==
    LET market == p.Market
        is_buying_synthetic == services_is_buying_synthetic(p)
        collateral_amount == DecMul(p.SyntheticAmount, p.Price)
        total_fee == services_total_fee(p, f)
        fee_amount == DecMul(total_fee, collateral_amount)
        collateral_scaled ==
            DecMul(collateral_amount, NewFromInt(market.L2Config.CollateralResolution))
        synthetic_scaled ==
            DecMul(p.SyntheticAmount, NewFromInt(market.L2Config.SyntheticResolution))
        stark_collateral_amount_dec == services_round(is_buying_synthetic, collateral_scaled)
        stark_synthetic_amount_dec == services_round(is_buying_synthetic, synthetic_scaled)
    IN  [collateral_amount           |-> collateral_amount,
         fee_amount                  |-> fee_amount,
         stark_collateral_amount_dec |-> stark_collateral_amount_dec,
         stark_synthetic_amount_dec  |-> stark_synthetic_amount_dec,
         stark_collateral_amount     |->
             services_sign_collateral(is_buying_synthetic, IntPart(stark_collateral_amount_dec)),
         stark_synthetic_amount      |->
             services_sign_synthetic(is_buying_synthetic, IntPart(stark_synthetic_amount_dec)),
         stark_fee_part              |-> services_stark_fee_part(fee_amount, market)]

services_HashOrderParams(p, l, acct) ==
    [AmountSynthetic     |-> l.stark_synthetic_amount,
     SyntheticAssetID    |-> p.Market.L2Config.SyntheticID,
     AmountCollateral    |-> l.stark_collateral_amount,
     CollateralAssetID   |-> p.Market.L2Config.CollateralID,
     MaxFee              |-> l.stark_fee_part,
     Nonce               |-> p.Nonce,
     PositionID          |-> IntOfUint64(Vault(acct)),
     ExpirationTimestamp |-> p.ExpireTime,
     PublicKey           |-> PublicKey(acct),
     StarknetDomain      |-> p.StarknetDomain]

services_expireTimeRounded(ExpirationTimestamp) ==
    LET expireTimeWithBuffer == TimeAddSeconds(ExpirationTimestamp, BufferSeconds)
        truncated == TruncateSecond(expireTimeWithBuffer)
    IN  IF After(expireTimeWithBuffer, truncated) THEN TimeAddSeconds(truncated, 1)
        ELSE truncated

\* mutant: the two amounts change places
services_HashOrder_args_swapped(hp) ==
    <<FmtInt(hp.PositionID),
      hp.SyntheticAssetID,
      FmtD(hp.AmountCollateral),
      hp.CollateralAssetID,
      FmtD(hp.AmountSynthetic),
      hp.CollateralAssetID,
      FmtD(hp.MaxFee),
      FmtUnix(services_expireTimeRounded(hp.ExpirationTimestamp)),
      FmtD(hp.Nonce),
      hp.PublicKey,
      hp.StarknetDomain.Name,
      hp.StarknetDomain.Version,
      hp.StarknetDomain.ChainID,
      hp.StarknetDomain.Revision>>

services_HashOrder_args(hp) ==
    <<FmtInt(hp.PositionID),
      hp.SyntheticAssetID,
      FmtD(hp.AmountSynthetic),
      hp.CollateralAssetID,
      FmtD(hp.AmountCollateral),
      hp.CollateralAssetID,
      FmtD(hp.MaxFee),
      FmtUnix(services_expireTimeRounded(hp.ExpirationTimestamp)),
      FmtD(hp.Nonce),
      hp.PublicKey,
      hp.StarknetDomain.Name,
      hp.StarknetDomain.Version,
      hp.StarknetDomain.ChainID,
      hp.StarknetDomain.Revision>>

\* mutant: the signer gets the hash without its first character
services_sign_message_stripped(hash) == IF hash = <<>> THEN hash ELSE Tail(hash)

services_sign_message(hash) == hash

services_settlement(acct, sig_r, sig_s) ==
    [Signature          |-> [R |-> FmtHex(sig_r), S |-> FmtHex(sig_s)],
     StarkKey           |-> PublicKey(acct),
     CollateralPosition |-> FmtUint64(Vault(acct))]

\* mutant: the payload carries the buffered, rounded expiration
services_expiryEpochMillis_buffered(ExpireTime) ==
    Unix(services_expireTimeRounded(ExpireTime)) * 1000

services_expiryEpochMillis(ExpireTime) == UnixNanoDiv(ExpireTime, Millisecond)

services_orderID(OrderExternalID, hash) ==
    LET defaulted == IF IsNil(OrderExternalID) THEN Some(hash) ELSE OrderExternalID
    IN  IF ~IsNil(defaulted) THEN defaulted.v ELSE hash

\* mutant: the rate of the payload is looked up again when the order is
\* assembled
services_orderFee_reread(p, f, acct) ==
    DecString(GetTradingFee(acct, p.Market.Name).TakerFeeRate)

\* the fee of the order: the taker rate of the fees read at the start
services_orderFee(p, f, acct) == DecString(f.TakerFeeRate)

services_order(p, f, acct, hash, sig_r, sig_s) ==
    [ID                |-> services_orderID(p.OrderExternalID, hash),
     Market            |-> p.Market.Name,
     Side              |-> p.Side,
     Qty               |-> DecString(p.SyntheticAmount),
     Price             |-> DecString(p.Price),
     TimeInForce       |-> p.TimeInForce,
     ExpiryEpochMillis |-> services_expiryEpochMillis(p.ExpireTime),
     Fee               |-> services_orderFee(p, f, acct),
     Nonce             |-> FmtD(p.Nonce),
     Settlement        |-> services_settlement(acct, sig_r, sig_s),
     BuilderFee        |-> IF ~IsNil(p.BuilderFee) THEN Some(DecString(p.BuilderFee.v))
                           ELSE None,
     Type              |-> p.Type,
     PostOnly          |-> p.PostOnly,
     ReduceOnly        |-> p.ReduceOnly,
     SelfTradeProtectionLevel |-> p.SelfTradeProtectionLevel,
     CancelID          |-> p.PreviousOrderExternalID,
     BuilderID         |-> p.BuilderID,
     Trigger           |-> None,
     TpSlType          |-> p.TpSlType,
     TakeProfit        |-> None,
     StopLoss          |-> None]

(***************************************************************************)
(* orders.CreateOrderObject and orders.HashOrder                           *)
(***************************************************************************)
\* mutant: the expire time is always taken from the clock
orders_ExpireTime_clock(p, now) == TimeAddSeconds(now, HourSeconds)

orders_ExpireTime(p, now) ==
    IF IsNil(p.ExpireTime) THEN TimeAddSeconds(now, HourSeconds) ELSE p.ExpireTime.v

orders_validate(p) == IF IsNil(p.Nonce) THEN "MissingNonce" ELSE ""

orders_is_buying_synthetic(p) == p.Side = OrderSideBuy

orders_total_fee(p, f) ==
    IF ~IsNil(p.BuilderFee) THEN DecAdd(f.TakerFeeRate, p.BuilderFee.v)
    ELSE f.TakerFeeRate

\* mutant: the scaled values are rounded up for either side
orders_round_up(is_buying_synthetic, d) == DecCeil(d)

orders_round(is_buying_synthetic, d) ==
    IF is_buying_synthetic THEN DecCeil(d) ELSE DecFloor(d)

\* mutant: the fee is rounded down
orders_stark_fee_part_floor(fee_amount, market) ==
    IntPart(DecFloor(DecMul(fee_amount, NewFromInt(market.L2Config.CollateralResolution))))

orders_stark_fee_part(fee_amount, market) ==
    IntPart(DecCeil(DecMul(fee_amount, NewFromInt(market.L2Config.CollateralResolution))))

orders_sign_collateral(is_buying_synthetic, stark_collateral_amount) ==
    IF is_buying_synthetic THEN -stark_collateral_amount ELSE stark_collateral_amount

orders_sign_synthetic(is_buying_synthetic, stark_synthetic_amount) ==
    IF is_buying_synthetic THEN stark_synthetic_amount ELSE -stark_synthetic_amount

orders_quantize(p, f) ==
    LET market == p.Market
        is_buying_synthetic == orders_is_buying_synthetic(p)
        collateral_amount == DecMul(p.SyntheticAmount, p.Price)
        total_fee == orders_total_fee(p, f)
        fee_amount == DecMul(total_fee, collateral_amount)
        collateral_scaled ==
            DecMul(collateral_amount, NewFromInt(market.L2Config.CollateralResolution))
        synthetic_scaled ==
            DecMul(p.SyntheticAmount, NewFromInt(market.L2Config.SyntheticResolution))
        stark_collateral_amount_dec == orders_round(is_buying_synthetic, collateral_scaled)
        stark_synthetic_amount_dec == orders_round(is_buying_synthetic, synthetic_scaled)
    IN  [collateral_amount           |-> collateral_amount,
         fee_amount                  |-> fee_amount,
         stark_collateral_amount_dec |-> stark_collateral_amount_dec,
         stark_synthetic_amount_dec  |-> stark_synthetic_amount_dec,
         stark_collateral_amount     |->
             orders_sign_collateral(is_buying_synthetic, IntPart(stark_collateral_amount_dec)),
         stark_synthetic_amount      |->
             orders_sign_synthetic(is_buying_synthetic, IntPart(stark_synthetic_amount_dec)),
         stark_fee_part              |-> orders_stark_fee_part(fee_amount, market)]

\* mutant: the salt is generated from the expiration instant
orders_HashOrderParams_generated(p, l, acct, ExpireTime) ==
    [AmountSynthetic     |-> l.stark_synthetic_amount,
     SyntheticAssetID    |-> p.Market.L2Config.SyntheticID,
     AmountCollateral    |-> l.stark_collateral_amount,
     CollateralAssetID   |-> p.Market.L2Config.CollateralID,
     MaxFee              |-> l.stark_fee_part,
     Nonce               |-> ExpireTime.sec,
     PositionID          |-> IntOfUint64(Vault(acct)),
     ExpirationTimestamp |-> ExpireTime,
     PublicKey           |-> PublicKey(acct),
     StarknetDomain      |-> p.StarknetDomain]

orders_HashOrderParams(p, l, acct, ExpireTime) ==
    [AmountSynthetic     |-> l.stark_synthetic_amount,
     SyntheticAssetID    |-> p.Market.L2Config.SyntheticID,
     AmountCollateral    |-> l.stark_collateral_amount,
     CollateralAssetID   |-> p.Market.L2Config.CollateralID,
     MaxFee              |-> l.stark_fee_part,
     Nonce               |-> p.Nonce.v,
     PositionID          |-> IntOfUint64(Vault(acct)),
     ExpirationTimestamp |-> ExpireTime,
     PublicKey           |-> PublicKey(acct),
     StarknetDomain      |-> p.StarknetDomain]

\* mutant: the buffered instant is truncated, not rounded up
orders_expireTimeRounded_truncated(ExpirationTimestamp) ==
    TruncateSecond(TimeAddSeconds(ExpirationTimestamp, BufferSeconds))

orders_expireTimeRounded(ExpirationTimestamp) ==
    LET expireTimeWithBuffer == TimeAddSeconds(ExpirationTimestamp, BufferSeconds)
        truncated == TruncateSecond(expireTimeWithBuffer)
    IN  IF After(expireTimeWithBuffer, truncated) THEN TimeAddSeconds(truncated, 1)
        ELSE truncated

orders_HashOrder_args(hp) ==
    <<FmtInt(hp.PositionID),
      hp.SyntheticAssetID,
      FmtD(hp.AmountSynthetic),
      hp.CollateralAssetID,
      FmtD(hp.AmountCollateral),
      hp.CollateralAssetID,
      FmtD(hp.MaxFee),
      FmtUnix(orders_expireTimeRounded(hp.ExpirationTimestamp)),
      FmtD(hp.Nonce),
      hp.PublicKey,
      hp.StarknetDomain.Name,
      hp.StarknetDomain.Version,
      hp.StarknetDomain.ChainID,
      hp.StarknetDomain.Revision>>

orders_sign_message(hash) == hash

orders_settlement(acct, sig_r, sig_s) ==
    [Signature          |-> [R |-> FmtHex(sig_r), S |-> FmtHex(sig_s)],
     StarkKey           |-> PublicKey(acct),
     CollateralPosition |-> FmtUint64(Vault(acct))]

\* mutant: the payload carries the expiry in seconds
orders_expiryEpochMillis_seconds(ExpireTime) == Unix(ExpireTime)

\* for the zero time the count is outside the model's integers and is kept
\* as its decimal digits
orders_expiryEpochMillis(ExpireTime) ==
    IF IsZero(ExpireTime) THEN ZeroTimeUnixMilli
    ELSE UnixNanoDiv(ExpireTime, Millisecond)

\* mutant: the id is always the hash
orders_orderID_hash(OrderExternalID, hash) == hash

orders_orderID(OrderExternalID, hash) ==
    LET defaulted == IF IsNil(OrderExternalID) THEN Some(hash) ELSE OrderExternalID
    IN  defaulted.v

orders_order(p, f, acct, ExpireTime, hash, sig_r, sig_s) ==
    [ID                |-> orders_orderID(p.OrderExternalID, hash),
     Market            |-> p.Market.Name,
     Side              |-> p.Side,
     Qty               |-> DecString(p.SyntheticAmount),
     Price             |-> DecString(p.Price),
     TimeInForce       |-> p.TimeInForce,
     ExpiryEpochMillis |-> orders_expiryEpochMillis(ExpireTime),
     Fee               |-> DecString(f.TakerFeeRate),
     Nonce             |-> FmtD(p.Nonce.v),
     Settlement        |-> orders_settlement(acct, sig_r, sig_s),
     BuilderFee        |-> IF ~IsNil(p.BuilderFee) THEN Some(DecString(p.BuilderFee.v))
                           ELSE None,
     Type              |-> OrderTypeLimit,
     PostOnly          |-> p.PostOnly,
     ReduceOnly        |-> FALSE,
     SelfTradeProtectionLevel |-> p.SelfTradeProtectionLevel,
     CancelID          |-> p.PreviousOrderExternalID,
     BuilderID         |-> p.BuilderID,
     Trigger           |-> None,
     TpSlType          |-> None,
     TakeProfit        |-> None,
     StopLoss          |-> None]

(***************************************************************************)
(* State machine                                                           *)
(***************************************************************************)
TestVault == 10002

TestPrivateKey == <<"0", "x", "7", "a">>

TestPublicKey == <<"0", "x", "6", "1">>

Init ==
    /\ account = NewStarkPerpetualAccount(Uint64(TestVault), TestPrivateKey, TestPublicKey)
    /\ pc = "idle"
    /\ builder = ""
    /\ params = None
    /\ fees = None
    /\ loc = None
    /\ hashCalls = <<>>
    /\ order_hash = None
    /\ signCalls = <<>>
    /\ order = None
    /\ err = ""
    /\ config = None
    /\ prev = None
    /\ lastWritten = [m \in MarketNames |-> None]
    /\ accounts = [a \in AccountIds |->
                      NewStarkPerpetualAccount(Uint64(TestVault + a), TestPrivateKey,
                                               TestPublicKey)]
    /\ tradingFeeMu = [a \in AccountIds |-> NewRWMutex]
    /\ procs = [g \in Goroutines |-> Outside]

ServicesParams ==
    [Market          : Markets,
     SyntheticAmount : SyntheticAmounts,
     Price           : Prices,
     Side            : Sides,
     StarknetDomain  : {StarknetDomain},
     ExpireTime      : ExpireTimes \cup {ZeroTime},
     OrderExternalID : ExternalIDs,
     TimeInForce     : TimesInForce,
     Nonce           : Nonces,
     BuilderFee      : BuilderFees,
     Type            : {OrderTypeLimit},
     PostOnly        : {FALSE},
     ReduceOnly      : {FALSE},
     PreviousOrderExternalID  : {None},
     SelfTradeProtectionLevel : {SelfTradeProtectionAccount},
     BuilderID       : {None},
     TpSlType        : {None},
     TakeProfit      : {None},
     StopLoss        : {None}]

OrdersParams ==
    [Market          : Markets,
     SyntheticAmount : SyntheticAmounts,
     Price           : Prices,
     Side            : Sides,
     Signer          : {"account", "custom"},
     StarknetDomain  : {StarknetDomain},
     ExpireTime      : {Some(t) : t \in ExpireTimes} \cup {None},
     OrderExternalID : ExternalIDs,
     TimeInForce     : TimesInForce,
     Nonce           : {Some(n) : n \in Nonces} \cup {None},
     BuilderFee      : BuilderFees,
     PostOnly        : {FALSE},
     PreviousOrderExternalID  : {None},
     SelfTradeProtectionLevel : {SelfTradeProtectionAccount},
     BuilderID       : {None}]

\* mutant: a failing build hands back the order it had begun to fill
Fail_partial(e) ==
    /\ pc' = "failed"
    /\ err' = e
    /\ order' = [ID |-> <<>>]

Fail(e) ==
    /\ pc' = "failed"
    /\ err' = e
    /\ order' = None

\* mutant: the fee that was resolved is stored in the account's cache
services_createOrderObject_caching(p) ==
    /\ builder' = "services"
    /\ params' = p
    /\ IF services_validate(p) # ""
       THEN /\ Fail(services_validate(p))
            /\ UNCHANGED <<fees, loc, hashCalls, account>>
       ELSE LET f == GetTradingFee(account, p.Market.Name)
                l == services_quantize(p, f)
            IN  /\ fees' = f
                /\ loc' = l
                /\ hashCalls' = Append(hashCalls,
                       services_HashOrder_args(services_HashOrderParams(p, l, account)))
                /\ pc' = "hashing"
                /\ account' = [account EXCEPT !.tradingFee[p.Market.Name] = Some(f)]
                /\ UNCHANGED <<order, err>>
    /\ UNCHANGED <<order_hash, signCalls, prev, lastWritten, lockVars>>

\* services.createOrderObject(p) up to the call of the hashing primitive
services_createOrderObject_with(p) ==
    /\ builder' = "services"
    /\ params' = p
    /\ IF services_validate(p) # ""
       THEN /\ Fail(services_validate(p))
            /\ UNCHANGED <<fees, loc, hashCalls>>
       ELSE LET f == GetTradingFee(account, p.Market.Name)
                l == services_quantize(p, f)
            IN  /\ fees' = f
                /\ loc' = l
                /\ hashCalls' = Append(hashCalls,
                       services_HashOrder_args(services_HashOrderParams(p, l, account)))
                /\ pc' = "hashing"
                /\ UNCHANGED <<order, err>>
    /\ UNCHANGED <<account, order_hash, signCalls, prev, lastWritten, lockVars>>

\* a direct call of services.createOrderObject with parameters from P
services_createOrderObject_in(P) ==
    /\ pc = "idle"
    /\ \E p \in P : services_createOrderObject_with(p)
    /\ UNCHANGED config

services_createOrderObject == services_createOrderObject_in(ServicesParams)

\* the hashing primitive returns; on success the account signer is called
services_hashReturns ==
    /\ pc = "hashing"
    /\ builder = "services"
    /\ \E outcome \in HashOutcomes :
         IF outcome = "err"
         THEN /\ Fail("HashComputationFailed")
              /\ UNCHANGED <<order_hash, signCalls>>
         ELSE LET hash == IF outcome = "ok" THEN GetOrderHash(hashCalls[Len(hashCalls)])
                          ELSE <<>>
              IN  /\ order_hash' = Some(hash)
                  /\ IF SignRejects(services_sign_message(hash))
                     THEN /\ Fail("SigningFailed")
                          /\ UNCHANGED signCalls
                     ELSE /\ signCalls' = Append(signCalls, services_sign_message(hash))
                          /\ pc' = "signing"
                          /\ UNCHANGED <<order, err>>
    /\ UNCHANGED <<account, builder, params, fees, loc, hashCalls>>
    /\ UNCHANGED <<config, prev, lastWritten, lockVars>>

\* mutant: a failed signature is attempted once more
services_signReturns_retry ==
    /\ pc = "signing"
    /\ builder = "services"
    /\ \/ /\ Len(signCalls) < 2
          /\ signCalls' = Append(signCalls, services_sign_message(order_hash.v))
          /\ UNCHANGED <<pc, err, order, loc>>
       \/ /\ \E sig \in SigPairs :
               /\ loc' = loc @@ [sig_r |-> sig[1], sig_s |-> sig[2]]
               /\ order' = services_order(params, fees, account, order_hash.v, sig[1], sig[2])
               /\ pc' = "done"
               /\ UNCHANGED err
          /\ UNCHANGED signCalls
    /\ UNCHANGED <<account, builder, params, fees, hashCalls, order_hash>>
    /\ UNCHANGED <<config, prev, lastWritten, lockVars>>

\* the signer returns; on success the order is assembled
services_signReturns ==
    /\ pc = "signing"
    /\ builder = "services"
    /\ \/ Fail("SigningFailed") /\ UNCHANGED loc
       \/ \E sig \in SigPairs :
            /\ loc' = loc @@ [sig_r |-> sig[1], sig_s |-> sig[2]]
            /\ order' = services_order(params, fees, account, order_hash.v, sig[1], sig[2])
            /\ pc' = "done"
            /\ UNCHANGED err
    /\ UNCHANGED <<account, builder, params, fees, hashCalls, order_hash, signCalls>>
    /\ UNCHANGED <<config, prev, lastWritten, lockVars>>

\* orders.CreateOrderObject up to the call of the hashing primitive, for
\* parameters from P and a clock reading from N
orders_CreateOrderObject_in(P, N) ==
    /\ pc = "idle"
    /\ \E p \in P, now \in N :
         /\ builder' = "orders"
         /\ params' = p
         /\ IF orders_validate(p) # ""
            THEN /\ Fail(orders_validate(p))
                 /\ UNCHANGED <<fees, loc, hashCalls>>
            ELSE LET f == DefaultFees
                     ExpireTime == orders_ExpireTime(p, now)
                     l == orders_quantize(p, f)
                 IN  /\ fees' = f
                     /\ loc' = l @@ [now |-> now, ExpireTime |-> ExpireTime]
                     /\ hashCalls' = Append(hashCalls,
                            orders_HashOrder_args(
                                orders_HashOrderParams(p, l, account, ExpireTime)))
                     /\ pc' = "hashing"
                     /\ UNCHANGED <<order, err>>
    /\ UNCHANGED <<account, order_hash, signCalls, config, prev, lastWritten, lockVars>>

orders_CreateOrderObject == orders_CreateOrderObject_in(OrdersParams, Nows)

\* the hashing primitive returns; on success params.Signer is called
orders_hashReturns ==
    /\ pc = "hashing"
    /\ builder = "orders"
    /\ \E outcome \in HashOutcomes :
         IF outcome = "err"
         THEN /\ Fail("HashComputationFailed")
              /\ UNCHANGED <<order_hash, signCalls>>
         ELSE LET hash == IF outcome = "ok" THEN GetOrderHash(hashCalls[Len(hashCalls)])
                          ELSE <<>>
              IN  /\ order_hash' = Some(hash)
                  /\ IF params.Signer = "account" /\ SignRejects(orders_sign_message(hash))
                     THEN /\ Fail("SigningFailed")
                          /\ UNCHANGED signCalls
                     ELSE /\ signCalls' = Append(signCalls, orders_sign_message(hash))
                          /\ pc' = "signing"
                          /\ UNCHANGED <<order, err>>
    /\ UNCHANGED <<account, builder, params, fees, loc, hashCalls>>
    /\ UNCHANGED <<config, prev, lastWritten, lockVars>>

\* the signer returns; on success the order is assembled
orders_signReturns ==
    /\ pc = "signing"
    /\ builder = "orders"
    /\ \/ Fail("SigningFailed") /\ UNCHANGED loc
       \/ \E sig \in SigPairs :
            /\ order' = orders_order(params, fees, account, loc.ExpireTime,
                                     order_hash.v, sig[1], sig[2])
            /\ loc' = loc @@ [sig_r |-> sig[1], sig_s |-> sig[2]]
            /\ pc' = "done"
            /\ UNCHANGED err
    /\ UNCHANGED <<account, builder, params, fees, hashCalls, order_hash, signCalls>>
    /\ UNCHANGED <<config, prev, lastWritten, lockVars>>

\* the build call returns to its caller; its locals are discarded
ReturnTo(caller) ==
    /\ pc \in {"done", "failed"}
    /\ pc' = "idle"
    /\ builder' = ""
    /\ params' = None
    /\ fees' = None
    /\ loc' = None
    /\ hashCalls' = <<>>
    /\ order_hash' = None
    /\ signCalls' = <<>>
    /\ order' = None
    /\ err' = ""
    /\ config' = None
    /\ prev' = caller
    /\ UNCHANGED <<account, lastWritten, lockVars>>

Return == ReturnTo(prev)

buildVars == <<pc, builder, params, fees, loc, hashCalls, order_hash, signCalls,
               order, err, config, prev>>

\* StarkPerpetualAccount.SetTradingFee(marketName, fee) on the account of
\* the build calls
SetTradingFee_call(marketName, fee) ==
    /\ account' = [account EXCEPT !.tradingFee = SetTradingFee_map(@, marketName, fee)]
    /\ lastWritten' = [lastWritten EXCEPT ![marketName] = Some(fee)]
    /\ UNCHANGED <<buildVars, lockVars>>

\* StarkPerpetualAccount.SetTradingFees(fees) on the account of the build
\* calls
SetTradingFees_call(batch) ==
    /\ account' = [account EXCEPT !.tradingFee = SetTradingFees_map(@, batch)]
    /\ lastWritten' = [m \in MarketNames |->
                          IF m \in DOMAIN batch THEN Some(batch[m]) ELSE lastWritten[m]]
    /\ UNCHANGED <<buildVars, lockVars>>

SetTradingFee == \E fee \in CachedFees : SetTradingFee_call(fee.Market, fee)

SetTradingFees ==
    \E names \in SUBSET MarketNames :
        SetTradingFees_call([m \in names |-> CHOOSE fee \in CachedFees : fee.Market = m])

Next ==
    \/ services_createOrderObject
    \/ services_hashReturns
    \/ services_signReturns
    \/ orders_CreateOrderObject
    \/ orders_hashReturns
    \/ orders_signReturns
    \/ Return
    \/ SetTradingFee
    \/ SetTradingFees

Spec == Init /\ [][Next]_vars

(***************************************************************************)
(* OrdersService.PlaceOrder, and the builders on absent, zero and present  *)
(* expiry and nonce                                                        *)
(***************************************************************************)
PresenceMarkets == {m \in Markets : m.Name = "BTC-USD"}

PresenceExpireTimes == {Time(1, 860694000)}

PresenceNows == {Time(0, 500), Time(7, 0)}

PresenceNonces == {0, 1473}

\* buildPlaceOrderConfig: the positional arguments and the options applied
\* to the defaults (a nonce is always set with WithNonce here)
PlaceOrderConfigs ==
    [Market          : PresenceMarkets,
     SyntheticAmount : {Dec(1, 10)},
     Price           : {Dec(3, 10)},
     Side            : {OrderSideBuy, OrderSideSell},
     TimeInForce     : {TimeInForceGTT},
     ExpireTime      : {Some(t) : t \in PresenceExpireTimes \cup {ZeroTime}} \cup {None},
     OrderExternalID : {None},
     Nonce           : {Some(n) : n \in PresenceNonces},
     BuilderFee      : {None},
     Type            : {OrderTypeLimit},
     PostOnly        : {FALSE},
     ReduceOnly      : {FALSE},
     PreviousOrderExternalID  : {None},
     SelfTradeProtectionLevel : {SelfTradeProtectionAccount},
     BuilderID       : {None},
     TpSlType        : {None},
     TakeProfit      : {None},
     StopLoss        : {None}]

\* the default of the expire time in PlaceOrder
PlaceOrder_expireTime(c, now) ==
    IF IsNil(c.ExpireTime) THEN Some(TimeAddSeconds(now, HourSeconds)) ELSE c.ExpireTime

\* the createOrderObjectParams that PlaceOrder fills in
PlaceOrder_params(c, expireTime) ==
    [Market          |-> c.Market,
     SyntheticAmount |-> c.SyntheticAmount,
     Price           |-> c.Price,
     Side            |-> c.Side,
     StarknetDomain  |-> StarknetDomain,
     ExpireTime      |-> expireTime.v,
     OrderExternalID |-> c.OrderExternalID,
     TimeInForce     |-> c.TimeInForce,
     Nonce           |-> c.Nonce.v,
     BuilderFee      |-> c.BuilderFee,
     Type            |-> c.Type,
     PostOnly        |-> c.PostOnly,
     ReduceOnly      |-> c.ReduceOnly,
     PreviousOrderExternalID  |-> c.PreviousOrderExternalID,
     SelfTradeProtectionLevel |-> c.SelfTradeProtectionLevel,
     BuilderID       |-> c.BuilderID,
     TpSlType        |-> c.TpSlType,
     TakeProfit      |-> c.TakeProfit,
     StopLoss        |-> c.StopLoss]

\* PlaceOrder up to the call of the hashing primitive inside
\* createOrderObject
PlaceOrder ==
    /\ pc = "idle"
    /\ \E c \in PlaceOrderConfigs, now \in PresenceNows :
         /\ config' = Some([opts |-> c, now |-> now])
         /\ services_createOrderObject_with(
                PlaceOrder_params(c, PlaceOrder_expireTime(c, now)))

PresenceServicesParams ==
    [Market          : PresenceMarkets,
     SyntheticAmount : {Dec(1, 10)},
     Price           : {Dec(3, 10)},
     Side            : {OrderSideBuy, OrderSideSell},
     StarknetDomain  : {StarknetDomain},
     ExpireTime      : PresenceExpireTimes \cup {ZeroTime},
     OrderExternalID : {None},
     TimeInForce     : {TimeInForceGTT},
     Nonce           : PresenceNonces,
     BuilderFee      : {None},
     Type            : {OrderTypeLimit},
     PostOnly        : {FALSE},
     ReduceOnly      : {FALSE},
     PreviousOrderExternalID  : {None},
     SelfTradeProtectionLevel : {SelfTradeProtectionAccount},
     BuilderID       : {None},
     TpSlType        : {None},
     TakeProfit      : {None},
     StopLoss        : {None}]

PresenceOrdersParams ==
    [Market          : PresenceMarkets,
     SyntheticAmount : {Dec(1, 10)},
     Price           : {Dec(3, 10)},
     Side            : {OrderSideBuy, OrderSideSell},
     Signer          : {"account", "custom"},
     StarknetDomain  : {StarknetDomain},
     ExpireTime      : {Some(t) : t \in PresenceExpireTimes \cup {ZeroTime}} \cup {None},
     OrderExternalID : {None},
     TimeInForce     : {TimeInForceGTT},
     Nonce           : {Some(n) : n \in PresenceNonces} \cup {None},
     BuilderFee      : {None},
     PostOnly        : {FALSE},
     PreviousOrderExternalID  : {None},
     SelfTradeProtectionLevel : {SelfTradeProtectionAccount},
     BuilderID       : {None}]

NextPresence ==
    \/ PlaceOrder
    \/ services_createOrderObject_in(PresenceServicesParams)
    \/ services_hashReturns
    \/ services_signReturns
    \/ orders_CreateOrderObject_in(PresenceOrdersParams, PresenceNows)
    \/ orders_hashReturns
    \/ orders_signReturns
    \/ Return

SpecPresence == Init /\ [][NextPresence]_vars

(***************************************************************************)
(* The fee cache under arbitrary writes, read by build calls               *)
(***************************************************************************)
FeeEntries ==
    [Market         : MarketNames,
     MakerFeeRate   : {Dec(0, 1)},
     TakerFeeRate   : {Dec(1, 1000), Dec(2, 1000)},
     BuilderFeeRate : {Dec(0, 1)}]

FeesServicesParams ==
    [Market          : Markets,
     SyntheticAmount : {Dec(1, 10)},
     Price           : {Dec(3, 10)},
     Side            : {OrderSideBuy, OrderSideSell},
     StarknetDomain  : {StarknetDomain},
     ExpireTime      : PresenceExpireTimes,
     OrderExternalID : {None},
     TimeInForce     : {TimeInForceGTT},
     Nonce           : Nonces,
     BuilderFee      : {None},
     Type            : {OrderTypeLimit},
     PostOnly        : {FALSE},
     ReduceOnly      : {FALSE},
     PreviousOrderExternalID  : {None},
     SelfTradeProtectionLevel : {SelfTradeProtectionAccount},
     BuilderID       : {None},
     TpSlType        : {None},
     TakeProfit      : {None},
     StopLoss        : {None}]

fees_SetTradingFee ==
    \E marketName \in MarketNames, fee \in FeeEntries : SetTradingFee_call(marketName, fee)

fees_SetTradingFees ==
    \E names \in SUBSET MarketNames :
        \E batch \in [names -> FeeEntries] : SetTradingFees_call(batch)

NextFees ==
    \/ fees_SetTradingFee
    \/ fees_SetTradingFees
    \/ services_createOrderObject_in(FeesServicesParams)
    \/ services_hashReturns
    \/ services_signReturns
    \/ Return

SpecFees == Init /\ [][NextFees]_vars

(***************************************************************************)
(* Goroutines that call GetTradingFee, SetTradingFee and SetTradingFees on *)
(* shared accounts.  A call is split where it takes the mutex, at each     *)
(* entry a batch writes, and where it releases the mutex.                  *)
(***************************************************************************)
\* the platform's fee of a market, as the account service delivers it
PlatformFee(marketName) == CHOOSE fee \in CachedFees : fee.Market = marketName

LockBatches ==
    {[m \in names |-> PlatformFee(m)] : names \in SUBSET MarketNames}

\* RLock at the start of GetTradingFee(marketName) on account a
ReaderLock(g, a, marketName) ==
    LET r == GetTradingFee_acquire(tradingFeeMu[a], g)
    IN  /\ procs[g].at = "outside"
        /\ ~r.blocked
        /\ tradingFeeMu' = [tradingFeeMu EXCEPT ![a] = r.mu]
        /\ procs' = [procs EXCEPT ![g] =
                        [at |-> "GetTradingFee", acct |-> a, marketName |-> marketName]]
        /\ UNCHANGED <<account, buildVars, lastWritten, accounts>>

\* GetTradingFee: RLock
GetTradingFee_RLock ==
    \E g \in Goroutines, a \in AccountIds, marketName \in MarketNames :
        ReaderLock(g, a, marketName)

\* GetTradingFee: the lookup, the deferred RUnlock and the return
GetTradingFee_RUnlock ==
    /\ \E g \in Goroutines :
         /\ procs[g].at = "GetTradingFee"
         /\ tradingFeeMu' = [tradingFeeMu EXCEPT ![procs[g].acct] = RWMutex_RUnlock(@, g)]
         /\ procs' = [procs EXCEPT ![g] =
                         [at  |-> "outside",
                          got |-> GetTradingFee(accounts[procs[g].acct], procs[g].marketName)]]
    /\ UNCHANGED <<account, buildVars, lastWritten, accounts>>

\* Lock at the start of a writing call with the entries in batch
WriterLock(g, a, batch) ==
    LET r == SetTradingFee_acquire(tradingFeeMu[a], g)
    IN  /\ procs[g].at = "outside"
        /\ ~r.blocked
        /\ tradingFeeMu' = [tradingFeeMu EXCEPT ![a] = r.mu]
        /\ procs' = [procs EXCEPT ![g] =
                        [at     |-> IF r.held THEN "writing" ELSE "Lock",
                         acct   |-> a,
                         range  |-> batch,
                         fees   |-> batch,
                         before |-> accounts[a].tradingFee]]
        /\ UNCHANGED <<account, buildVars, lastWritten, accounts>>

\* SetTradingFee: Lock
SetTradingFee_Lock ==
    \E g \in Goroutines, a \in AccountIds, marketName \in MarketNames :
        WriterLock(g, a, [m \in {marketName} |-> PlatformFee(marketName)])

\* SetTradingFees: Lock
SetTradingFees_Lock ==
    \E g \in Goroutines, a \in AccountIds, batch \in LockBatches : WriterLock(g, a, batch)

\* a pending Lock returns when the last reader has left
Lock_granted ==
    /\ \E g \in Goroutines :
         LET a == procs[g].acct
         IN  /\ procs[g].at = "Lock"
             /\ tradingFeeMu[a].pending = g
             /\ tradingFeeMu[a].readers = {}
             /\ tradingFeeMu' = [tradingFeeMu EXCEPT ![a] =
                                    [@ EXCEPT !.writer = g, !.pending = NoGoroutine]]
             /\ procs' = [procs EXCEPT ![g].at = "writing",
                                       ![g].before = accounts[a].tradingFee]
    /\ UNCHANGED <<account, buildVars, lastWritten, accounts>>

\* s.tradingFee[market] = fee, for one entry of the range
SetTradingFees_write ==
    /\ \E g \in Goroutines :
         /\ procs[g].at = "writing"
         /\ \E market \in DOMAIN procs[g].range :
              /\ accounts' = [accounts EXCEPT ![procs[g].acct].tradingFee =
                                 SetTradingFee_map(@, market, procs[g].range[market])]
              /\ procs' = [procs EXCEPT ![g].range =
                              [m \in DOMAIN procs[g].range \ {market} |-> procs[g].range[m]]]
    /\ UNCHANGED <<account, buildVars, lastWritten, tradingFeeMu>>

\* the deferred Unlock and the return of a writing call
SetTradingFees_Unlock ==
    /\ \E g \in Goroutines :
         /\ procs[g].at = "writing"
         /\ DOMAIN procs[g].range = {}
         /\ tradingFeeMu' = [tradingFeeMu EXCEPT ![procs[g].acct] = RWMutex_Unlock(@, g)]
         /\ procs' = [procs EXCEPT ![g] = Outside]
    /\ UNCHANGED <<account, buildVars, lastWritten, accounts>>

NextLock ==
    \/ GetTradingFee_RLock
    \/ GetTradingFee_RUnlock
    \/ SetTradingFee_Lock
    \/ SetTradingFees_Lock
    \/ Lock_granted
    \/ SetTradingFees_write
    \/ SetTradingFees_Unlock

SpecLock == Init /\ [][NextLock]_vars

(***************************************************************************)
(* Build calls one after the other, the last finished one remembered       *)
(***************************************************************************)
TwiceOrdersParams ==
    [Market          : PresenceMarkets,
     SyntheticAmount : {Dec(1, 10)},
     Price           : {Dec(3, 10)},
     Side            : {OrderSideSell},
     Signer          : {"custom"},
     StarknetDomain  : {StarknetDomain},
     ExpireTime      : {Some(t) : t \in PresenceExpireTimes} \cup {None},
     OrderExternalID : {None},
     TimeInForce     : {TimeInForceGTT},
     Nonce           : {Some(n) : n \in Nonces},
     BuilderFee      : {None},
     PostOnly        : {FALSE},
     PreviousOrderExternalID  : {None},
     SelfTradeProtectionLevel : {SelfTradeProtectionAccount},
     BuilderID       : {None}]

\* what went into the build call that is about to return, and what came out
CallRecord ==
    [builder    |-> builder,
     params     |-> params,
     opts       |-> IF IsNil(config) THEN None ELSE Some(config.v.opts),
     now        |-> IF builder = "orders" THEN Some(loc.now)
                    ELSE IF ~IsNil(config) THEN Some(config.v.now)
                    ELSE None,
     fees       |-> fees,
     hashCalls  |-> hashCalls,
     order_hash |-> order_hash,
     signCalls  |-> signCalls,
     signature  |-> <<loc.sig_r, loc.sig_s>>,
     order      |-> order]

\* the build call returns to its caller, which keeps a successful result
Return_kept == ReturnTo(IF pc = "done" THEN Some(CallRecord) ELSE prev)

NextTwice ==
    \/ PlaceOrder
    \/ services_hashReturns
    \/ services_signReturns
    \/ orders_CreateOrderObject_in(TwiceOrdersParams, PresenceNows)
    \/ orders_hashReturns
    \/ orders_signReturns
    \/ Return_kept
    \/ SetTradingFee

SpecTwice == Init /\ [][NextTwice]_vars

(***************************************************************************)
(* The builders on the market, amount, price and nonce of the test suite   *)
(***************************************************************************)
TestResolution == 1000000

TestNonce == 1473459052

createTestBTCUSDMarket ==
    MarketModel("BTC-USD", <<"0", "x", "3", "1">>, TestResolution,
                <<"0", "x", "4", "2">>, TestResolution)

\* decimal.RequireFromString("0.00100000")
TestSyntheticAmount == Dec(100000, 100000000)

\* the value of decimal.RequireFromString("43445.11680000")
TestPrice == Dec(434451168, 10000)

ReferenceOrdersParams ==
    [Market          : {createTestBTCUSDMarket},
     SyntheticAmount : {TestSyntheticAmount},
     Price           : {TestPrice},
     Side            : {OrderSideBuy, OrderSideSell},
     Signer          : {"account", "custom"},
     StarknetDomain  : {StarknetDomain},
     ExpireTime      : {Some(t) : t \in PresenceExpireTimes} \cup {None},
     OrderExternalID : ExternalIDs,
     TimeInForce     : {TimeInForceGTT, TimeInForceIOC},
     Nonce           : {Some(TestNonce)},
     BuilderFee      : {None},
     PostOnly        : {FALSE},
     PreviousOrderExternalID  : {None},
     SelfTradeProtectionLevel : {SelfTradeProtectionAccount},
     BuilderID       : {None}]

ReferenceServicesParams ==
    [Market          : {createTestBTCUSDMarket},
     SyntheticAmount : {TestSyntheticAmount},
     Price           : {TestPrice},
     Side            : {OrderSideBuy, OrderSideSell},
     StarknetDomain  : {StarknetDomain},
     ExpireTime      : PresenceExpireTimes,
     OrderExternalID : ExternalIDs,
     TimeInForce     : {TimeInForceGTT, TimeInForceIOC},
     Nonce           : {TestNonce},
     BuilderFee      : {None},
     Type            : {OrderTypeLimit},
     PostOnly        : {FALSE},
     ReduceOnly      : {FALSE},
     PreviousOrderExternalID  : {None},
     SelfTradeProtectionLevel : {SelfTradeProtectionAccount},
     BuilderID       : {None},
     TpSlType        : {None},
     TakeProfit      : {None},
     StopLoss        : {None}]

NextReference ==
    \/ services_createOrderObject_in(ReferenceServicesParams)
    \/ services_hashReturns
    \/ services_signReturns
    \/ orders_CreateOrderObject_in(ReferenceOrdersParams, Nows)
    \/ orders_hashReturns
    \/ orders_signReturns
    \/ Return

SpecReference == Init /\ [][NextReference]_vars

(***************************************************************************)
(* buildPlaceOrderConfig and the options, and PlaceOrder on its result     *)
(***************************************************************************)
MaxOptions == 2

\* the positional parameters of PlaceOrder
RequiredArgs ==
    {[Market |-> m, SyntheticAmount |-> Dec(1, 10), Price |-> Dec(3, 10),
      Side |-> t[1], Type |-> t[2], TimeInForce |-> TimeInForceGTT,
      SelfTradeProtectionLevel |-> t[3]] :
        m \in PresenceMarkets,
        t \in {<<OrderSideBuy, OrderTypeLimit, SelfTradeProtectionAccount>>,
               <<OrderSideSell, OrderTypeMarket, SelfTradeProtectionClient>>}}

OptionTakeProfit == TpSlTriggerParam(Dec(4, 10), Dec(4, 10))

OptionStopLoss == TpSlTriggerParam(Dec(2, 10), Dec(2, 10))

\* the option values a caller passes; each is the closure that the
\* constructor of that name returns for its argument
PlaceOrderOptions ==
    {[WithPostOnly |-> b] : b \in BOOLEAN}
        \cup {[WithReduceOnly |-> b] : b \in BOOLEAN}
        \cup {[WithExpireTime |-> t] : t \in PresenceExpireTimes}
        \cup {[WithPreviousOrderExternalID |-> <<"p">>]}
        \cup {[WithOrderExternalID |-> <<"e">>]}
        \cup {[WithBuilderFee |-> f] : f \in {Dec(0, 1), Dec(1, 1000)}}
        \cup {[WithBuilderID |-> 7]}
        \cup {[WithTpSlType |-> TpSlTypeOrder]}
        \cup {[WithTakeProfit |-> OptionTakeProfit]}
        \cup {[WithStopLoss |-> OptionStopLoss]}
        \cup {[WithNonce |-> n] : n \in PresenceNonces}

OptionName(opt) == CHOOSE n \in DOMAIN opt : TRUE

WithPostOnly(c, postOnly) == [c EXCEPT !.PostOnly = postOnly]

WithReduceOnly(c, reduceOnly) == [c EXCEPT !.ReduceOnly = reduceOnly]

WithExpireTime(c, expireTime) == [c EXCEPT !.ExpireTime = Some(expireTime)]

\* mutant: the id of the previous order is taken for the id of this order
WithPreviousOrderExternalID_own(c, id) == [c EXCEPT !.OrderExternalID = Some(id)]

WithPreviousOrderExternalID(c, id) == [c EXCEPT !.PreviousOrderExternalID = Some(id)]

WithOrderExternalID(c, id) == [c EXCEPT !.OrderExternalID = Some(id)]

WithBuilderFee(c, fee) == [c EXCEPT !.BuilderFee = Some(fee)]

WithBuilderID(c, id) == [c EXCEPT !.BuilderID = Some(id)]

WithTpSlType(c, tpSlType) == [c EXCEPT !.TpSlType = Some(tpSlType)]

WithTakeProfit(c, trigger) == [c EXCEPT !.TakeProfit = Some(trigger)]

WithStopLoss(c, trigger) == [c EXCEPT !.StopLoss = Some(trigger)]

\* mutant: a custom nonce also turns post-only off
WithNonce_resetting(c, nonce) == [c EXCEPT !.Nonce = Some(nonce), !.PostOnly = FALSE]

WithNonce(c, nonce) == [c EXCEPT !.Nonce = Some(nonce)]

\* opt(config): the closure applied to the configuration
PlaceOrderOption_call(opt, c) ==
    CASE OptionName(opt) = "WithPostOnly" -> WithPostOnly(c, opt.WithPostOnly)
      [] OptionName(opt) = "WithReduceOnly" -> WithReduceOnly(c, opt.WithReduceOnly)
      [] OptionName(opt) = "WithExpireTime" -> WithExpireTime(c, opt.WithExpireTime)
      [] OptionName(opt) = "WithPreviousOrderExternalID" ->
             WithPreviousOrderExternalID(c, opt.WithPreviousOrderExternalID)
      [] OptionName(opt) = "WithOrderExternalID" ->
             WithOrderExternalID(c, opt.WithOrderExternalID)
      [] OptionName(opt) = "WithBuilderFee" -> WithBuilderFee(c, opt.WithBuilderFee)
      [] OptionName(opt) = "WithBuilderID" -> WithBuilderID(c, opt.WithBuilderID)
      [] OptionName(opt) = "WithTpSlType" -> WithTpSlType(c, opt.WithTpSlType)
      [] OptionName(opt) = "WithTakeProfit" -> WithTakeProfit(c, opt.WithTakeProfit)
      [] OptionName(opt) = "WithStopLoss" -> WithStopLoss(c, opt.WithStopLoss)
      [] OptionName(opt) = "WithNonce" -> WithNonce(c, opt.WithNonce)

\* the configuration before any option is applied
buildPlaceOrderConfig_init(args) ==
    [Market                   |-> args.Market,
     SyntheticAmount          |-> args.SyntheticAmount,
     Price                    |-> args.Price,
     Side                     |-> args.Side,
     Type                     |-> args.Type,
     TimeInForce              |-> args.TimeInForce,
     SelfTradeProtectionLevel |-> args.SelfTradeProtectionLevel,
     PostOnly                 |-> FALSE,
     ReduceOnly               |-> FALSE,
     Nonce                    |-> None,
     ExpireTime               |-> None,
     PreviousOrderExternalID  |-> None,
     OrderExternalID          |-> None,
     BuilderFee               |-> None,
     BuilderID                |-> None,
     TpSlType                 |-> None,
     TakeProfit               |-> None,
     StopLoss                 |-> None]

OptionLists ==
    UNION {[1..n -> PlaceOrderOptions] : n \in 0..MaxOptions}

\* PlaceOrder is called: buildPlaceOrderConfig starts from the positional
\* parameters and the defaults
PlaceOrder_call ==
    /\ pc = "idle"
    /\ \E args \in RequiredArgs, opts \in OptionLists :
         config' = Some([args    |-> args,
                         options |-> opts,
                         applied |-> 0,
                         opts    |-> buildPlaceOrderConfig_init(args)])
    /\ pc' = "configuring"
    /\ UNCHANGED <<account, builder, params, fees, loc, hashCalls, order_hash,
                   signCalls, order, err, prev, lastWritten, lockVars>>

\* one turn of the loop over the options in buildPlaceOrderConfig
buildPlaceOrderConfig_apply ==
    /\ pc = "configuring"
    /\ config.v.applied < Len(config.v.options)
    /\ config' = Some([config.v EXCEPT
           !.applied = @ + 1,
           !.opts = PlaceOrderOption_call(config.v.options[config.v.applied + 1], @)])
    /\ UNCHANGED <<account, pc, builder, params, fees, loc, hashCalls, order_hash,
                   signCalls, order, err, prev, lastWritten, lockVars>>

\* the rest of PlaceOrder, up to the call of the hashing primitive inside
\* createOrderObject.  config.Nonce is a pointer handed to an int field:
\* the int is what it points to, and there is none when no option set it
PlaceOrder_createOrderObject ==
    /\ pc = "configuring"
    /\ config.v.applied = Len(config.v.options)
    /\ \E now \in PresenceNows :
         /\ config' = Some(config.v @@ [now |-> now])
         /\ IF IsNil(config.v.opts.Nonce)
            THEN /\ Fail("NilNonce")
                 /\ builder' = "services"
                 /\ UNCHANGED <<account, params, fees, loc, hashCalls, order_hash,
                                signCalls, prev, lastWritten, lockVars>>
            ELSE services_createOrderObject_with(
                     PlaceOrder_params(config.v.opts,
                                       PlaceOrder_expireTime(config.v.opts, now)))

\* direct calls of the two builders with the pass-through fields varied
OptionsOrdersParams ==
    [Market          : PresenceMarkets,
     SyntheticAmount : {Dec(1, 10)},
     Price           : {Dec(3, 10)},
     Side            : {OrderSideBuy},
     Signer          : {"account"},
     StarknetDomain  : {StarknetDomain},
     ExpireTime      : {Some(t) : t \in PresenceExpireTimes},
     OrderExternalID : {None},
     TimeInForce     : {TimeInForceGTT, TimeInForceIOC},
     Nonce           : {Some(n) : n \in Nonces},
     BuilderFee      : {None, Some(Dec(0, 1))},
     PostOnly        : BOOLEAN,
     PreviousOrderExternalID  : {None, Some(<<"p">>)},
     SelfTradeProtectionLevel : {SelfTradeProtectionAccount, SelfTradeProtectionClient},
     BuilderID       : {None, Some(7)}]

NextOptions ==
    \/ PlaceOrder_call
    \/ buildPlaceOrderConfig_apply
    \/ PlaceOrder_createOrderObject
    \/ services_hashReturns
    \/ services_signReturns
    \/ orders_CreateOrderObject_in(OptionsOrdersParams, Nows)
    \/ orders_hashReturns
    \/ orders_signReturns
    \/ Return

SpecOptions == Init /\ [][NextOptions]_vars

(***************************************************************************)
(* Accounts constructed for vault ids over the whole range of uint64       *)
(***************************************************************************)
VaultIds ==
    {Uint64(TestVault),
     WideSub(TwoPow63, <<1>>),
     TwoPow63,
     WideSub(TwoPow64, <<1>>)}

\* NewStarkPerpetualAccount(vault, ...) for the account of the next build
\* calls
NewStarkPerpetualAccount_call ==
    /\ pc = "idle"
    /\ \E vault \in VaultIds :
         account' = NewStarkPerpetualAccount(vault, TestPrivateKey, TestPublicKey)
    /\ lastWritten' = [m \in MarketNames |-> None]
    /\ UNCHANGED <<buildVars, lockVars>>

NextVault ==
    \/ NewStarkPerpetualAccount_call
    \/ services_createOrderObject_in(PresenceServicesParams)
    \/ services_hashReturns
    \/ services_signReturns
    \/ orders_CreateOrderObject_in(PresenceOrdersParams, PresenceNows)
    \/ orders_hashReturns
    \/ orders_signReturns
    \/ Return

SpecVault == Init /\ [][NextVault]_vars

(***************************************************************************)
(* The two builders called one after the other on the inputs that both     *)
(* accept, every finished call remembered                                  *)
(***************************************************************************)
AgreeServicesParams ==
    [Market          : PresenceMarkets,
     SyntheticAmount : {Dec(1, 10)},
     Price           : {Dec(3, 10)},
     Side            : {OrderSideBuy, OrderSideSell},
     StarknetDomain  : {StarknetDomain},
     ExpireTime      : PresenceExpireTimes,
     OrderExternalID : ExternalIDs,
     TimeInForce     : {TimeInForceGTT, TimeInForceIOC},
     Nonce           : Nonces,
     BuilderFee      : BuilderFees,
     Type            : {OrderTypeLimit},
     PostOnly        : BOOLEAN,
     ReduceOnly      : {FALSE},
     PreviousOrderExternalID  : {Some(<<"p">>)},
     SelfTradeProtectionLevel : {SelfTradeProtectionClient},
     BuilderID       : {Some(7)},
     TpSlType        : {None},
     TakeProfit      : {None},
     StopLoss        : {None}]

AgreeOrdersParams ==
    [Market          : PresenceMarkets,
     SyntheticAmount : {Dec(1, 10)},
     Price           : {Dec(3, 10)},
     Side            : {OrderSideBuy, OrderSideSell},
     Signer          : {"account"},
     StarknetDomain  : {StarknetDomain},
     ExpireTime      : {Some(t) : t \in PresenceExpireTimes},
     OrderExternalID : ExternalIDs,
     TimeInForce     : {TimeInForceGTT, TimeInForceIOC},
     Nonce           : {Some(n) : n \in Nonces},
     BuilderFee      : BuilderFees,
     PostOnly        : BOOLEAN,
     PreviousOrderExternalID  : {Some(<<"p">>)},
     SelfTradeProtectionLevel : {SelfTradeProtectionClient},
     BuilderID       : {Some(7)}]

\* what went into the build call that is about to return, what the two
\* external calls gave it, and what came out
OutcomeRecord ==
    [builder    |-> builder,
     params     |-> params,
     hashCalls  |-> hashCalls,
     order_hash |-> order_hash,
     signCalls  |-> signCalls,
     signature  |-> IF pc = "done" THEN Some(<<loc.sig_r, loc.sig_s>>) ELSE None,
     failed     |-> pc = "failed",
     order      |-> order]

\* the build call returns to its caller, which keeps the outcome
Return_recorded == ReturnTo(Some(OutcomeRecord))

NextAgree ==
    \/ services_createOrderObject_in(AgreeServicesParams)
    \/ services_hashReturns
    \/ services_signReturns
    \/ orders_CreateOrderObject_in(AgreeOrdersParams, Nows)
    \/ orders_hashReturns
    \/ orders_signReturns
    \/ Return_recorded

SpecAgree == Init /\ [][NextAgree]_vars

(***************************************************************************)
(* Vocabulary of the properties                                            *)
(***************************************************************************)
Quantized == ~IsNil(loc)

ValidSide == params.Side \in {OrderSideBuy, OrderSideSell}

Abs(n) == IF n < 0 THEN -n ELSE n

\* m is the ceiling (the floor) of the fraction x
IsCeilingOf(m, x) == m * x.den >= x.num /\ (m - 1) * x.den < x.num

IsFloorOf(m, x) == m * x.den <= x.num /\ (m + 1) * x.den > x.num

IsWhole(x) == x.num % x.den = 0

ExactCollateralScaled ==
    Dec(params.SyntheticAmount.num * params.Price.num
            * params.Market.L2Config.CollateralResolution,
        params.SyntheticAmount.den * params.Price.den)

ExactSyntheticScaled ==
    Dec(params.SyntheticAmount.num * params.Market.L2Config.SyntheticResolution,
        params.SyntheticAmount.den)

\* (taker + builder) * syntheticAmount * price * collateralResolution
ExactFeeScaled ==
    LET t == fees.TakerFeeRate
        b == IF IsNil(params.BuilderFee) THEN Dec(0, 1) ELSE params.BuilderFee.v
    IN  Dec((t.num * b.den + b.num * t.den) * ExactCollateralScaled.num,
            t.den * b.den * ExactCollateralScaled.den)

DecimalDigits == {"0", "1", "2", "3", "4", "5", "6", "7", "8", "9"}

IsDecimalString(str) ==
    LET body == IF str # <<>> /\ str[1] = "-" THEN Tail(str) ELSE str
    IN  body # <<>> /\ \A i \in 1..Len(body) : body[i] \in DecimalDigits

RECURSIVE ParseDigits(_, _)
ParseDigits(str, base) ==
    IF str = <<>> THEN 0
    ELSE ParseDigits(SubSeq(str, 1, Len(str) - 1), base) * base
         + (CHOOSE d \in 0..(base - 1) : DigitChar[d + 1] = str[Len(str)])

ParseDecimal(str) ==
    IF str[1] = "-" THEN -ParseDigits(Tail(str), 10) ELSE ParseDigits(str, 10)

ParseHex(str) == ParseDigits(SubSeq(str, 3, Len(str)), 16)

\* the expire time the build works with: the caller's, or the default
EffectiveExpireTime ==
    IF builder = "services" THEN params.ExpireTime
    ELSE IF IsNil(params.ExpireTime) THEN Time(loc.now.sec + 3600, loc.now.nsec)
    ELSE params.ExpireTime.v

NotBefore(a, b) == a.sec > b.sec \/ (a.sec = b.sec /\ a.nsec >= b.nsec)

\* the instant that lies ms milliseconds after the epoch
InstantOfMillis(ms) == Time(ms \div 1000, (ms % 1000) * 1000000)

\* ms is the epoch-millisecond count of t, truncated toward zero
IsTruncatedMillisOf(ms, t) ==
    IF NotBefore(t, Time(0, 0))
    THEN NotBefore(t, InstantOfMillis(ms)) /\ ~NotBefore(t, InstantOfMillis(ms + 1))
    ELSE NotBefore(InstantOfMillis(ms), t) /\ ~NotBefore(InstantOfMillis(ms - 1), t)

\* n is the least whole second not before t + 14 days
IsBufferedCeilingSecond(n, t) ==
    LET buffered == Time(t.sec + 14 * 24 * 3600, t.nsec)
    IN  NotBefore(Time(n, 0), buffered) /\ ~NotBefore(Time(n - 1, 0), buffered)

LastHashCall == hashCalls[Len(hashCalls)]

(***************************************************************************)
(* C1: for side Buy the scaled collateral and the scaled synthetic value   *)
(* are rounded up to an integer, for side Sell they are rounded down,      *)
(* before the sign adjustment; the magnitude that is hashed is that        *)
(* rounded value.                                                          *)
(***************************************************************************)
C1_RoundingBySide ==
    (Quantized /\ ValidSide) =>
        LET c == loc.stark_collateral_amount_dec
            y == loc.stark_synthetic_amount_dec
        IN  /\ c.den = 1 /\ y.den = 1
            /\ params.Side = OrderSideBuy =>
                   /\ IsCeilingOf(c.num, ExactCollateralScaled)
                   /\ IsCeilingOf(y.num, ExactSyntheticScaled)
            /\ params.Side = OrderSideSell =>
                   /\ IsFloorOf(c.num, ExactCollateralScaled)
                   /\ IsFloorOf(y.num, ExactSyntheticScaled)
            /\ Abs(loc.stark_collateral_amount) = c.num
            /\ Abs(loc.stark_synthetic_amount) = y.num

C1_Witness ==
    /\ Quantized
    /\ builder = "services"
    /\ params.Side = OrderSideBuy
    /\ ~IsWhole(ExactCollateralScaled)
    /\ ~IsWhole(ExactSyntheticScaled)

(***************************************************************************)
(* C2 as stated: for valid inputs exactly one of the collateral and the    *)
(* synthetic integer is negative, the collateral one for Buy and the       *)
(* synthetic one for Sell.                                                 *)
(***************************************************************************)
C2_ExactlyOneNegative ==
    (Quantized /\ ValidSide) =>
        /\ params.Side = OrderSideBuy =>
               loc.stark_collateral_amount < 0 /\ loc.stark_synthetic_amount >= 0
        /\ params.Side = OrderSideSell =>
               loc.stark_synthetic_amount < 0 /\ loc.stark_collateral_amount >= 0

(***************************************************************************)
(* C2 amended: for valid inputs at most one of the two integers is         *)
(* negative.  For Buy the collateral integer is negative and the synthetic *)
(* one positive.  For Sell the collateral integer is not negative and the  *)
(* synthetic one is not positive; it is negative exactly when              *)
(* syntheticAmount * syntheticResolution >= 1, and 0 otherwise.            *)
(***************************************************************************)
C2_SignBySide ==
    (Quantized /\ ValidSide) =>
        /\ params.Side = OrderSideBuy =>
               loc.stark_collateral_amount < 0 /\ loc.stark_synthetic_amount > 0
        /\ params.Side = OrderSideSell =>
               /\ loc.stark_collateral_amount >= 0
               /\ loc.stark_synthetic_amount <= 0
               /\ loc.stark_synthetic_amount < 0
                      <=> ExactSyntheticScaled.num >= ExactSyntheticScaled.den

C2_Witness ==
    /\ Quantized
    /\ params.Side = OrderSideSell
    /\ loc.stark_synthetic_amount = 0
    /\ loc.stark_collateral_amount >= 0

(***************************************************************************)
(* C3: the hashed fee amount is the ceiling of                             *)
(* (taker + builder or 0) * syntheticAmount * price * collateralResolution *)
(* for either side, and it is handed to the hash without a sign change.    *)
(***************************************************************************)
C3_FeeCeiling ==
    Quantized =>
        /\ IsCeilingOf(loc.stark_fee_part, ExactFeeScaled)
        /\ IsDecimalString(LastHashCall[7])
        /\ ParseDecimal(LastHashCall[7]) = loc.stark_fee_part
        /\ loc.stark_fee_part >= 0

C3_Witness ==
    /\ Quantized
    /\ builder = "services"
    /\ params.Side = OrderSideSell
    /\ ~IsNil(params.BuilderFee)
    /\ ~IsWhole(ExactFeeScaled)
    /\ loc.stark_fee_part > 1

(***************************************************************************)
(* C4: the expiration handed to the hash is the least whole Unix second    *)
(* that is not before expireTime + 14 days.                                *)
(***************************************************************************)
C4_HashExpiration ==
    Quantized =>
        /\ IsDecimalString(LastHashCall[8])
        /\ IsBufferedCeilingSecond(ParseDecimal(LastHashCall[8]), EffectiveExpireTime)

C4_Witness ==
    /\ Quantized
    /\ EffectiveExpireTime.nsec > 0
    /\ ParseDecimal(LastHashCall[8]) = EffectiveExpireTime.sec + 14 * 24 * 3600 + 1

C6_HashInputs ==
    Quantized =>
        LET a == LastHashCall
            nonce == IF builder = "services" THEN params.Nonce ELSE params.Nonce.v
        IN  /\ Len(hashCalls) = 1
            /\ Len(a) = 14
            /\ \A i \in {1, 3, 5, 7, 8, 9} : IsDecimalString(a[i])
            /\ a[1] = FmtUint64(account.vault)
            /\ a[2] = params.Market.L2Config.SyntheticID
            /\ ParseDecimal(a[3]) = loc.stark_synthetic_amount
            /\ a[4] = params.Market.L2Config.CollateralID
            /\ ParseDecimal(a[5]) = loc.stark_collateral_amount
            /\ a[6] = params.Market.L2Config.CollateralID
            /\ ParseDecimal(a[7]) = loc.stark_fee_part
            /\ IsBufferedCeilingSecond(ParseDecimal(a[8]), EffectiveExpireTime)
            /\ ParseDecimal(a[9]) = nonce
            /\ a[10] = account.publicKey
            /\ a[11] = params.StarknetDomain.Name
            /\ a[12] = params.StarknetDomain.Version
            /\ a[13] = params.StarknetDomain.ChainID
            /\ a[14] = params.StarknetDomain.Revision

C6_Witness ==
    /\ pc = "hashing"
    /\ builder = "orders"
    /\ params.Side = OrderSideBuy
    /\ ParseDecimal(LastHashCall[3]) > 0
    /\ ParseDecimal(LastHashCall[5]) < 0
    /\ ParseDecimal(LastHashCall[3]) # -ParseDecimal(LastHashCall[5])

(***************************************************************************)
(* C7: only the order hash returned by the hash primitive for this call    *)
(* is ever handed to the signer; in a successful build the settlement      *)
(* carries the signer's (r, s) for it, and without an external id the      *)
(* order id is that hash.                                                  *)
(***************************************************************************)
C7_TrustChain ==
    /\ Len(signCalls) <= 1
    /\ \A i \in 1..Len(signCalls) :
           /\ ~IsNil(order_hash)
           /\ signCalls[i] = order_hash.v
    /\ ~IsNil(order_hash) =>
           order_hash.v \in {GetOrderHash(LastHashCall), <<>>}
    /\ pc = "done" =>
           /\ Len(signCalls) = 1
           /\ ParseHex(order.Settlement.Signature.R) = loc.sig_r
           /\ ParseHex(order.Settlement.Signature.S) = loc.sig_s
           /\ IsNil(params.OrderExternalID) => order.ID = signCalls[1]

C7_Witness ==
    /\ pc = "done"
    /\ builder = "services"
    /\ IsNil(params.OrderExternalID)
    /\ signCalls = <<GetOrderHash(LastHashCall)>>
    /\ loc.sig_r = 255
    /\ order.Settlement.Signature.R = <<"0", "x", "f", "f">>

(***************************************************************************)
(* C8: the order id is the caller's external id when one is supplied and   *)
(* the computed order hash otherwise; what is hashed and signed does not   *)
(* depend on the external id.                                              *)
(***************************************************************************)
\* what the builder hands to the hash primitive when the external id is e
HashCallWithExternalID(e) ==
    IF builder = "services"
    THEN LET p == [params EXCEPT !.OrderExternalID = e]
         IN  services_HashOrder_args(services_HashOrderParams(
                 p, services_quantize(p, fees), account))
    ELSE LET p == [params EXCEPT !.OrderExternalID = e]
         IN  orders_HashOrder_args(orders_HashOrderParams(
                 p, orders_quantize(p, fees), account, loc.ExpireTime))

C8_OrderIdResolution ==
    pc = "done" =>
        /\ ~IsNil(params.OrderExternalID) => order.ID = params.OrderExternalID.v
        /\ IsNil(params.OrderExternalID) => order.ID = order_hash.v
        /\ \A e \in ExternalIDs : hashCalls = <<HashCallWithExternalID(e)>>
        /\ signCalls = <<order_hash.v>>

C8_Witness ==
    /\ pc = "done"
    /\ ~IsNil(params.OrderExternalID)
    /\ order.ID = <<"e", "x", "t">>
    /\ order.ID # order_hash.v

(***************************************************************************)
(* C9: a build whose timeInForce is outside {GTT, IOC} fails in            *)
(* validation with UnsupportedTimeInForce (or with the error of a          *)
(* validation the builder runs before it), returns no order, and has       *)
(* invoked neither the hash primitive nor the signer.                      *)
(***************************************************************************)
C9_TimeInForceRejected ==
    (pc # "idle" /\ params.TimeInForce \notin {TimeInForceGTT, TimeInForceIOC}) =>
        /\ pc = "failed"
        /\ err \in {"UnsupportedTimeInForce", "InvalidSide", "MissingNonce"}
        /\ ValidSide /\ builder = "services" => err = "UnsupportedTimeInForce"
        /\ IsNil(order)
        /\ hashCalls = <<>>
        /\ signCalls = <<>>

(***************************************************************************)
(* C10: a build whose side is neither Buy nor Sell fails in validation     *)
(* with InvalidSide (or with the error of a validation the builder runs    *)
(* before it), returns no order, and is never quantized, hashed or signed. *)
(***************************************************************************)
C10_SideRejected ==
    (pc # "idle" /\ ~ValidSide) =>
        /\ pc = "failed"
        /\ err \in {"InvalidSide", "MissingNonce"}
        /\ builder = "services" => err = "InvalidSide"
        /\ IsNil(order)
        /\ ~Quantized
        /\ hashCalls = <<>>
        /\ signCalls = <<>>

(***************************************************************************)
(* C11: the nonce is mandatory.  A call of orders.CreateOrderObject        *)
(* without a nonce fails with the missing-nonce error, returns no order    *)
(* and calls neither the hashing primitive nor the signer.  Neither        *)
(* builder makes up a nonce: the salt handed to the hashing primitive      *)
(* (its ninth argument) and the nonce of the payload are the decimal       *)
(* digits of the nonce the caller supplied.                                *)
(***************************************************************************)
SuppliedNonce == IF builder = "orders" THEN params.Nonce.v ELSE params.Nonce

C11_NonceMandatory ==
    /\ (builder = "orders" /\ IsNil(params.Nonce)) =>
           /\ pc = "failed"
           /\ err = "MissingNonce"
           /\ IsNil(order)
           /\ hashCalls = <<>>
           /\ signCalls = <<>>
    /\ (~IsNil(config)) => params.Nonce = config.v.opts.Nonce.v
    /\ hashCalls # <<>> =>
           /\ IsDecimalString(LastHashCall[9])
           /\ ParseDecimal(LastHashCall[9]) = SuppliedNonce
    /\ pc = "done" =>
           /\ IsDecimalString(order.Nonce)
           /\ ParseDecimal(order.Nonce) = SuppliedNonce

C11_Witness ==
    /\ pc = "failed"
    /\ builder = "orders"
    /\ IsNil(params.Nonce)
    /\ err = "MissingNonce"

(***************************************************************************)
(* C12: presence of the expiry.  When the caller gives no expire time      *)
(* (orders.CreateOrderObject with a nil ExpireTime, PlaceOrder without     *)
(* WithExpireTime), the call time plus one hour is the expire time of the  *)
(* hash and of the payload.  When the expire time the builder works with   *)
(* is the zero time, the build fails with the missing-expiry error (or,    *)
(* when the nonce is missing too, with the missing-nonce error) and the    *)
(* hashing primitive is not called.                                        *)
(***************************************************************************)
ExpiryDefaulted ==
    \/ builder = "orders" /\ IsNil(params.ExpireTime)
    \/ ~IsNil(config) /\ IsNil(config.v.opts.ExpireTime)

CallTime == IF builder = "orders" THEN loc.now ELSE config.v.now

ExpiryUnset ==
    \/ builder = "orders" /\ ~IsNil(params.ExpireTime) /\ IsZero(params.ExpireTime.v)
    \/ builder = "services" /\ IsZero(params.ExpireTime)

C12_ExpiryPresence ==
    /\ (ExpiryDefaulted /\ hashCalls # <<>>) =>
           /\ IsDecimalString(LastHashCall[8])
           /\ IsBufferedCeilingSecond(ParseDecimal(LastHashCall[8]),
                                      Time(CallTime.sec + 3600, CallTime.nsec))
    /\ (ExpiryDefaulted /\ pc = "done") =>
           IsTruncatedMillisOf(order.ExpiryEpochMillis,
                               Time(CallTime.sec + 3600, CallTime.nsec))
    /\ ExpiryUnset =>
           /\ pc = "failed"
           /\ err \in {"MissingExpiry", "MissingNonce"}
           /\ err = "MissingNonce" => (builder = "orders" /\ IsNil(params.Nonce))
           /\ IsNil(order)
           /\ hashCalls = <<>>

(***************************************************************************)
(* C13: guard against the empty hash.  When the hashing primitive returns  *)
(* the empty string, the build fails, returns no order, and the signer     *)
(* (the account's or the caller's) is not invoked on the empty string.     *)
(***************************************************************************)
EmptyHashReturned == ~IsNil(order_hash) /\ order_hash.v = <<>>

C13_EmptyHashGuard ==
    EmptyHashReturned =>
        /\ pc = "failed"
        /\ err = "SigningFailed"
        /\ IsNil(order)
        /\ \A i \in 1..Len(signCalls) : signCalls[i] # <<>>

(***************************************************************************)
(* C14: all-or-nothing assembly.  A build call that has ended has either   *)
(* an order with every field filled in and no error, or an error and no    *)
(* order; while the call is running there is no order.                     *)
(***************************************************************************)
OrderFields ==
    {"ID", "Market", "Side", "Qty", "Price", "TimeInForce", "ExpiryEpochMillis",
     "Fee", "Nonce", "Settlement", "BuilderFee", "Type", "PostOnly", "ReduceOnly",
     "SelfTradeProtectionLevel", "CancelID", "BuilderID", "Trigger", "TpSlType",
     "TakeProfit", "StopLoss"}

IsHexString(str) ==
    /\ Len(str) > 2
    /\ SubSeq(str, 1, 2) = <<"0", "x">>
    /\ \A i \in 3..Len(str) : \E k \in 1..16 : DigitChar[k] = str[i]

OrderComplete ==
    /\ DOMAIN order = OrderFields
    /\ order.Market = params.Market.Name
    /\ order.Side = params.Side
    /\ order.TimeInForce = params.TimeInForce
    /\ order.Qty # <<>> /\ order.Price # <<>> /\ order.Fee # <<>>
    /\ IsDecimalString(order.Nonce)
    /\ DOMAIN order.Settlement = {"Signature", "StarkKey", "CollateralPosition"}
    /\ IsHexString(order.Settlement.Signature.R)
    /\ IsHexString(order.Settlement.Signature.S)
    /\ order.Settlement.StarkKey = account.publicKey
    /\ IsDecimalString(order.Settlement.CollateralPosition)
    /\ IsNil(order.BuilderFee) = IsNil(params.BuilderFee)

DecEq(a, b) == a.num * b.den = b.num * a.den

C16_FeeResolver ==
    \A m \in MarketNames :
        LET got == GetTradingFee(account, m)
        IN  IF IsNil(lastWritten[m])
            THEN /\ DecEq(got.TakerFeeRate, Dec(5, 10000))
                 /\ DecEq(got.MakerFeeRate, Dec(2, 10000))
                 /\ DecEq(got.BuilderFeeRate, Dec(0, 1))
            ELSE got = lastWritten[m].v

C16_Witness ==
    /\ ~IsNil(lastWritten["BTC-USD"])
    /\ lastWritten["BTC-USD"].v.Market = "ETH-USD"
    /\ lastWritten["BTC-USD"].v.TakerFeeRate = Dec(2, 1000)
    /\ IsNil(lastWritten["ETH-USD"])
    /\ GetTradingFee(account, "BTC-USD").TakerFeeRate = Dec(2, 1000)
    /\ GetTradingFee(account, "ETH-USD") = DefaultFees

(***************************************************************************)
(* C17: locking discipline of the fee cache.  On every account at most one *)
(* writer is inside the cache, and while a writer is inside no reader is.  *)
(* Readers do not keep each other out: a goroutine can enter GetTradingFee *)
(* whenever no writer holds or awaits the account's mutex, however many    *)
(* readers are inside.  Accounts do not wait on each other: on an account  *)
(* whose mutex is free a writer enters at once, whatever goes on in the    *)
(* other accounts.                                                         *)
(***************************************************************************)
ReadersInside(a) ==
    {g \in Goroutines : procs[g].at = "GetTradingFee" /\ procs[g].acct = a}

WritersInside(a) ==
    {g \in Goroutines : procs[g].at = "writing" /\ procs[g].acct = a}

WritersWaiting(a) ==
    {g \in Goroutines : procs[g].at = "Lock" /\ procs[g].acct = a}

C17_LockingDiscipline ==
    \A a \in AccountIds :
        /\ Cardinality(WritersInside(a)) <= 1
        /\ WritersInside(a) # {} => ReadersInside(a) = {}
        /\ \A g \in Goroutines :
              procs[g].at = "outside" =>
                /\ (WritersInside(a) = {} /\ WritersWaiting(a) = {}) =>
                       \A m \in MarketNames : ENABLED ReaderLock(g, a, m)
                /\ (WritersInside(a) = {} /\ WritersWaiting(a) = {} /\ ReadersInside(a) = {}) =>
                       \A batch \in LockBatches :
                           ENABLED (WriterLock(g, a, batch) /\ procs'[g].at = "writing")

C17_Witness ==
    /\ Cardinality(ReadersInside(1)) = 2
    /\ WritersInside(2) # {}
    /\ accounts[2].tradingFee # accounts[1].tradingFee

(***************************************************************************)
(* C18: the fee cache is changed by explicit updates only.  No step of a   *)
(* build call (its start with the fee lookup by GetTradingFee, the return  *)
(* of the hashing primitive, the return of the signer, the return to the   *)
(* caller), failing or not, changes the account or its fee cache; a step   *)
(* that changes the cache is a SetTradingFee or SetTradingFees call and    *)
(* leaves the build untouched.                                             *)
(***************************************************************************)
C18_CacheFrame ==
    [][/\ (pc' # pc) => (account' = account)
       /\ (account'.tradingFee # account.tradingFee) =>
              (UNCHANGED buildVars /\ lastWritten' # lastWritten)]_vars

C18_Witness ==
    /\ pc = "done"
    /\ builder = "services"
    /\ ~IsNil(account.tradingFee[params.Market.Name])
    /\ fees = account.tradingFee[params.Market.Name].v
    /\ fees.TakerFeeRate = Dec(2, 1000)

(***************************************************************************)
(* C19: determinism.  Of two build calls that both return an order, with   *)
(* the same inputs (for PlaceOrder its arguments and options, for the      *)
(* builders their parameters), the same resolved fee, a hashing primitive  *)
(* that returned the same result if it was given the same arguments and a  *)
(* signer that returned the same signature if it was given the same        *)
(* message, the second returns the same order as the first.                *)
(* C19_Determinism states this for all inputs; C19_DeterminismClock        *)
(* states it for calls that, when they carry no expire time, are made at   *)
(* the same clock reading.                                                 *)
(***************************************************************************)
SameInputs ==
    /\ prev.v.builder = builder
    /\ prev.v.opts = (IF IsNil(config) THEN None ELSE Some(config.v.opts))
    /\ IsNil(config) => prev.v.params = params
    /\ prev.v.fees = fees

DeterministicExternals ==
    /\ prev.v.hashCalls = hashCalls => prev.v.order_hash = order_hash
    /\ prev.v.signCalls = signCalls => prev.v.signature = <<loc.sig_r, loc.sig_s>>

SameClockIfDefaulted == ExpiryDefaulted => prev.v.now = Some(CallTime)

C19_Determinism ==
    (pc = "done" /\ ~IsNil(prev) /\ SameInputs /\ DeterministicExternals) =>
        order = prev.v.order

C19_DeterminismClock ==
    (pc = "done" /\ ~IsNil(prev) /\ SameInputs /\ DeterministicExternals
        /\ SameClockIfDefaulted) =>
        order = prev.v.order

C19_Witness ==
    /\ pc = "done"
    /\ ~IsNil(prev)
    /\ SameInputs
    /\ DeterministicExternals
    /\ builder = "orders"
    /\ ~IsNil(params.ExpireTime)
    /\ prev.v.now # Some(CallTime)
    /\ order = prev.v.order

(***************************************************************************)
(* C20: the reference scenario.  On a market with collateral and synthetic *)
(* resolution 1000000, for side Sell, amount 0.001, price 43445.1168,      *)
(* taker fee 0.0005 and no builder fee, the hashing primitive is given the *)
(* collateral amount 43445116, the synthetic amount -1000 and the fee      *)
(* 21723, and the order returned has qty "0.001", price "43445.1168", fee  *)
(* "0.0005" and side SELL.                                                 *)
(***************************************************************************)
ReferenceCase ==
    /\ pc # "idle"
    /\ params.Market.L2Config.CollateralResolution = 1000000
    /\ params.Market.L2Config.SyntheticResolution = 1000000
    /\ params.Side = "SELL"
    /\ DecEq(params.SyntheticAmount, Dec(1, 1000))
    /\ params.Price = Dec(434451168, 10000)
    /\ IsNil(params.BuilderFee)
    /\ ~IsNil(fees)
    /\ DecEq(fees.TakerFeeRate, Dec(5, 10000))

C20_ReferenceScenario ==
    ReferenceCase =>
        /\ hashCalls # <<>> =>
              /\ LastHashCall[3] = <<"-", "1", "0", "0", "0">>
              /\ LastHashCall[5] = <<"4", "3", "4", "4", "5", "1", "1", "6">>
              /\ LastHashCall[7] = <<"2", "1", "7", "2", "3">>
        /\ pc = "done" =>
              /\ order.Qty = <<"0", ".", "0", "0", "1">>
              /\ order.Price = <<"4", "3", "4", "4", "5", ".", "1", "1", "6", "8">>
              /\ order.Fee = <<"0", ".", "0", "0", "0", "5">>
              /\ order.Side = "SELL"

C20_Witness ==
    /\ ReferenceCase
    /\ pc = "done"
    /\ builder = "orders"
    /\ LastHashCall[5] = <<"4", "3", "4", "4", "5", "1", "1", "6">>
    /\ order.Qty = <<"0", ".", "0", "0", "1">>

(***************************************************************************)
(* C21: optional take-profit and stop-loss.  The order that PlaceOrder     *)
(* builds carries a take-profit (stop-loss) trigger exactly when the       *)
(* caller supplied one with WithTakeProfit (WithStopLoss); when it was not *)
(* supplied the field is nil.                                              *)
(***************************************************************************)
OptionSupplied(name) ==
    \E i \in 1..Len(config.v.options) : OptionName(config.v.options[i]) = name

C21_TriggerPresence ==
    (pc = "done" /\ ~IsNil(config)) =>
        /\ IsNil(order.TakeProfit) = ~OptionSupplied("WithTakeProfit")
        /\ IsNil(order.StopLoss) = ~OptionSupplied("WithStopLoss")

(***************************************************************************)
(* C22: nonce of PlaceOrder.  A PlaceOrder call without the WithNonce      *)
(* option gets a nonce of its own and goes on to build and sign the order; *)
(* it never fails for want of a nonce.  With WithNonce(n), n is the nonce  *)
(* that is hashed and the nonce of the order.                              *)
(***************************************************************************)
LastOption(name) ==
    LET at == {i \in 1..Len(config.v.options) : OptionName(config.v.options[i]) = name}
    IN  config.v.options[CHOOSE i \in at : \A j \in at : j <= i][name]

PlaceOrderEntered ==
    /\ ~IsNil(config)
    /\ pc \in {"hashing", "signing", "done", "failed"}

C22_NonceOfPlaceOrder ==
    PlaceOrderEntered =>
        /\ err # "NilNonce"
        /\ ~OptionSupplied("WithNonce") => (err = "" => hashCalls # <<>>)
        /\ (OptionSupplied("WithNonce") /\ hashCalls # <<>>) =>
               LastHashCall[9] = FmtD(LastOption("WithNonce"))
        /\ (OptionSupplied("WithNonce") /\ pc = "done") =>
               order.Nonce = FmtD(LastOption("WithNonce"))

(***************************************************************************)
(* C23: pass-through fields.  In a built order the market name, side,      *)
(* order type, time in force, self-trade protection level, post-only,      *)
(* reduce-only and builder id are the request's values, the nonce is the   *)
(* request's nonce in decimal, and the cancel id is the previous order's   *)
(* external id when one was supplied and nil otherwise.  For PlaceOrder    *)
(* the request is the positional parameters and the options; the request   *)
(* of orders.CreateOrderObject has neither an order type nor reduce-only.  *)
(***************************************************************************)
OptionOrDefault(name, default) ==
    IF OptionSupplied(name) THEN LastOption(name) ELSE default

OptionOrNil(name) ==
    IF OptionSupplied(name) THEN Some(LastOption(name)) ELSE None

RequestNonce == IF builder = "orders" THEN params.Nonce.v ELSE params.Nonce

C23_PassThrough ==
    pc = "done" =>
        /\ order.Market = params.Market.Name
        /\ order.Side = params.Side
        /\ order.TimeInForce = params.TimeInForce
        /\ order.SelfTradeProtectionLevel = params.SelfTradeProtectionLevel
        /\ order.PostOnly = params.PostOnly
        /\ order.BuilderID = params.BuilderID
        /\ order.CancelID = params.PreviousOrderExternalID
        /\ IsDecimalString(order.Nonce)
        /\ ParseDecimal(order.Nonce) = RequestNonce
        /\ builder = "services" =>
               /\ order.Type = params.Type
               /\ order.ReduceOnly = params.ReduceOnly
        /\ ~IsNil(config) =>
               /\ order.Market = config.v.args.Market.Name
               /\ order.Side = config.v.args.Side
               /\ order.Type = config.v.args.Type
               /\ order.TimeInForce = config.v.args.TimeInForce
               /\ order.SelfTradeProtectionLevel = config.v.args.SelfTradeProtectionLevel
               /\ order.PostOnly = OptionOrDefault("WithPostOnly", FALSE)
               /\ order.ReduceOnly = OptionOrDefault("WithReduceOnly", FALSE)
               /\ order.BuilderID = OptionOrNil("WithBuilderID")
               /\ order.CancelID = OptionOrNil("WithPreviousOrderExternalID")
               /\ ParseDecimal(order.Nonce) = LastOption("WithNonce")

C23_Witness ==
    /\ pc = "done"
    /\ ~IsNil(config)
    /\ OptionSupplied("WithPreviousOrderExternalID")
    /\ order.CancelID = Some(<<"p">>)
    /\ order.Type = OrderTypeMarket
    /\ order.SelfTradeProtectionLevel = SelfTradeProtectionClient

(***************************************************************************)
(* C24: the fee of the payload.  A build call resolves the fee of its      *)
(* market from the account's cache (the cached entry if there is one, the  *)
(* default with taker rate 0.0005 otherwise); the fee field of the order   *)
(* is the taker rate of that entry alone, without the builder fee, and the *)
(* order's builderFee is the supplied builder fee in decimal when one was  *)
(* supplied (a supplied zero included) and nil when none was.              *)
(***************************************************************************)
ResolvedRates(marketName) ==
    IF IsNil(account.tradingFee[marketName])
    THEN [MakerFeeRate |-> Dec(2, 10000), TakerFeeRate |-> Dec(5, 10000),
          BuilderFeeRate |-> Dec(0, 1)]
    ELSE [MakerFeeRate   |-> account.tradingFee[marketName].v.MakerFeeRate,
          TakerFeeRate   |-> account.tradingFee[marketName].v.TakerFeeRate,
          BuilderFeeRate |-> account.tradingFee[marketName].v.BuilderFeeRate]

RatesOf(f) ==
    [MakerFeeRate |-> f.MakerFeeRate, TakerFeeRate |-> f.TakerFeeRate,
     BuilderFeeRate |-> f.BuilderFeeRate]

FeeResolvedAtStart ==
    (pc \in {"idle", "configuring"} /\ pc' = "hashing") =>
        RatesOf(fees') = ResolvedRates(params'.Market.Name)

PayloadFeeIsTaker ==
    pc = "done" =>
        /\ order.Fee = DecString(fees.TakerFeeRate)
        /\ IsNil(order.BuilderFee) = IsNil(params.BuilderFee)
        /\ ~IsNil(params.BuilderFee) =>
               order.BuilderFee.v = DecString(params.BuilderFee.v)

C24_PayloadFee == [][FeeResolvedAtStart /\ PayloadFeeIsTaker']_vars

(***************************************************************************)
(* C25: the quantity of the payload is the quantity that was hashed.  In a *)
(* built order qty, read as a decimal number and multiplied by the         *)
(* market's synthetic resolution, is the magnitude of the synthetic amount *)
(* handed to the hashing primitive.                                        *)
(***************************************************************************)
RECURSIVE Pow10(_)
Pow10(n) == IF n = 0 THEN 1 ELSE 10 * Pow10(n - 1)

\* the number that a decimal string with an optional fraction denotes
ParseDecimalNumber(str) ==
    LET dots == {i \in 1..Len(str) : str[i] = "."}
    IN  IF dots = {} THEN Dec(ParseDecimal(str), 1)
        ELSE LET dot == CHOOSE i \in dots : TRUE
                 whole == SubSeq(str, 1, dot - 1)
                 frac == SubSeq(str, dot + 1, Len(str))
             IN  Dec(ParseDecimal(whole \o frac), Pow10(Len(frac)))

HashedSyntheticMagnitude == Abs(ParseDecimal(LastHashCall[3]))

C25_QtyMatchesHash ==
    pc = "done" =>
        DecEq(DecMul(ParseDecimalNumber(order.Qty),
                     NewFromInt(params.Market.L2Config.SyntheticResolution)),
              NewFromInt(HashedSyntheticMagnitude))

(***************************************************************************)
(* C26: option application.  buildPlaceOrderConfig applies the options in  *)
(* the order given: after any number of them each optional field holds the *)
(* value of the last applied option that sets it, or its default (false    *)
(* for post-only and reduce-only, absent for the others) if none did, and  *)
(* the required fields are the positional parameters; so an option changes *)
(* no required field and no optional field but its own.                    *)
(***************************************************************************)
RequiredFields ==
    {"Market", "SyntheticAmount", "Price", "Side", "Type", "TimeInForce",
     "SelfTradeProtectionLevel"}

FlagFields == {"PostOnly", "ReduceOnly"}

PointerFields ==
    {"ExpireTime", "PreviousOrderExternalID", "OrderExternalID", "BuilderFee",
     "BuilderID", "TpSlType", "TakeProfit", "StopLoss", "Nonce"}

\* the option named With<field>, by the field it is meant to set
FieldOfOption(name) ==
    CHOOSE f \in FlagFields \cup PointerFields :
        \/ name = "WithPostOnly" /\ f = "PostOnly"
        \/ name = "WithReduceOnly" /\ f = "ReduceOnly"
        \/ name = "WithExpireTime" /\ f = "ExpireTime"
        \/ name = "WithPreviousOrderExternalID" /\ f = "PreviousOrderExternalID"
        \/ name = "WithOrderExternalID" /\ f = "OrderExternalID"
        \/ name = "WithBuilderFee" /\ f = "BuilderFee"
        \/ name = "WithBuilderID" /\ f = "BuilderID"
        \/ name = "WithTpSlType" /\ f = "TpSlType"
        \/ name = "WithTakeProfit" /\ f = "TakeProfit"
        \/ name = "WithStopLoss" /\ f = "StopLoss"
        \/ name = "WithNonce" /\ f = "Nonce"

\* the applied options that are meant to set the field
SettersOf(field) ==
    {i \in 1..config.v.applied :
        FieldOfOption(OptionName(config.v.options[i])) = field}

LastSetting(field) ==
    LET i == CHOOSE k \in SettersOf(field) : \A j \in SettersOf(field) : j <= k
    IN  config.v.options[i][OptionName(config.v.options[i])]

C26_OptionApplication ==
    ~IsNil(config) =>
        /\ DOMAIN config.v.opts = RequiredFields \cup FlagFields \cup PointerFields
        /\ \A f \in RequiredFields : config.v.opts[f] = config.v.args[f]
        /\ \A f \in FlagFields :
               config.v.opts[f] = IF SettersOf(f) = {} THEN FALSE ELSE LastSetting(f)
        /\ \A f \in PointerFields :
               config.v.opts[f] = IF SettersOf(f) = {} THEN None
                                  ELSE Some(LastSetting(f))

C26_Witness ==
    /\ ~IsNil(config)
    /\ config.v.applied = 2
    /\ config.v.options = <<[WithPostOnly |-> TRUE], [WithPostOnly |-> FALSE]>>
    /\ config.v.opts.PostOnly = FALSE
    /\ IsNil(config.v.opts.Nonce)

(***************************************************************************)
(* C27: one fee schedule per order.  However SetTradingFee and             *)
(* SetTradingFees calls on the account fall between the steps of a build   *)
(* call, the rate in the fee field of the order it returns is a rate that  *)
(* was the default or was cached, and it is the taker rate from which the  *)
(* hashed fee amount was computed.                                         *)
(***************************************************************************)
KnownTakerRates ==
    {Dec(5, 10000)} \cup {fee.TakerFeeRate : fee \in CachedFees}

\* the fee amount that the hashing primitive must be given for a taker rate
HashedFeeFor(takerRate) ==
    LET total_fee == IF IsNil(params.BuilderFee) THEN takerRate
                     ELSE DecAdd(takerRate, params.BuilderFee.v)
        collateral_amount == DecMul(params.SyntheticAmount, params.Price)
    IN  IntPart(DecCeil(DecMul(DecMul(total_fee, collateral_amount),
                               NewFromInt(params.Market.L2Config.CollateralResolution))))

C27_FeeConsistency ==
    pc = "done" =>
        /\ \E r \in KnownTakerRates : DecEq(r, ParseDecimalNumber(order.Fee))
        /\ ParseDecimal(LastHashCall[7]) = HashedFeeFor(ParseDecimalNumber(order.Fee))

C27_Witness ==
    /\ pc = "done"
    /\ builder = "services"
    /\ fees = DefaultFees
    /\ ~IsNil(account.tradingFee[params.Market.Name])
    /\ HashedFeeFor(GetTradingFee(account, params.Market.Name).TakerFeeRate)
           # HashedFeeFor(fees.TakerFeeRate)
    /\ ParseDecimal(LastHashCall[7]) = HashedFeeFor(fees.TakerFeeRate)

(***************************************************************************)
(* C28: a batch update is atomic.  From the moment a SetTradingFee or      *)
(* SetTradingFees call holds the account's mutex until it returns, no      *)
(* GetTradingFee call and no other writing call is inside that account's   *)
(* cache, and the cache is what the call found with exactly the entries it *)
(* has written so far replaced; so a partially applied batch is seen by no *)
(* one.  When the call returns, every market of the batch resolves to the  *)
(* batch's entry and every other market to what it resolved to before.     *)
(***************************************************************************)
WrittenSoFar(g) == DOMAIN procs[g].fees \ DOMAIN procs[g].range

BatchIsolated ==
    \A g \in Goroutines :
        procs[g].at = "writing" =>
            LET a == procs[g].acct
            IN  /\ ReadersInside(a) = {}
                /\ WritersInside(a) = {g}
                /\ \A m \in MarketNames :
                       accounts[a].tradingFee[m] =
                           IF m \in WrittenSoFar(g) THEN Some(procs[g].fees[m])
                           ELSE procs[g].before[m]

BatchAppliedAtReturn ==
    \A g \in Goroutines :
        (procs[g].at = "writing" /\ procs'[g].at = "outside") =>
            \A m \in MarketNames :
                GetTradingFee(accounts'[procs[g].acct], m) =
                    IF m \in DOMAIN procs[g].fees THEN procs[g].fees[m]
                    ELSE IF IsNil(procs[g].before[m]) THEN DefaultFees
                    ELSE procs[g].before[m].v

C28_BatchAtomicity == []BatchIsolated /\ [][BatchAppliedAtReturn]_vars

C28_Witness ==
    \E g \in Goroutines :
        /\ procs[g].at = "writing"
        /\ DOMAIN procs[g].fees = MarketNames
        /\ Cardinality(WrittenSoFar(g)) = 1
        /\ \A m \in MarketNames : IsNil(procs[g].before[m])
        /\ \E m \in MarketNames : ~IsNil(accounts[procs[g].acct].tradingFee[m])
        /\ \E h \in Goroutines : procs[h].at = "GetTradingFee" /\ procs[h].acct # procs[g].acct

(***************************************************************************)
(* C29: the settlement block names what was hashed.  In a built order the  *)
(* settlement's collateralPosition is the decimal of the position id that  *)
(* was handed to the hashing primitive, and its starkKey is the public key *)
(* that was handed to it, for every vault id of the account.               *)
(***************************************************************************)
C29_SettlementMatchesHash ==
    pc = "done" =>
        /\ order.Settlement.CollateralPosition = LastHashCall[1]
        /\ order.Settlement.StarkKey = LastHashCall[10]

(***************************************************************************)
(* C30: the two builders agree where both apply.  For side Buy or Sell,    *)
(* time in force GTT or IOC, order type Limit, reduce-only false, no       *)
(* take-profit or stop-loss, an expire time and a nonce given explicitly,  *)
(* no cached fee of the market and the account's Sign as signer, a call of *)
(* orders.CreateOrderObject and a call of services.createOrderObject with  *)
(* the same inputs hand the same arguments to the hashing primitive, and   *)
(* when the hashing primitive and the signer answer both calls alike, both *)
(* fail or both return the same order.                                     *)
(***************************************************************************)
\* s: parameters of services.createOrderObject, o: of orders.CreateOrderObject
SameRequest(s, o) ==
    /\ \A f \in {"Market", "SyntheticAmount", "Price", "Side", "StarknetDomain",
                 "OrderExternalID", "TimeInForce", "BuilderFee", "PostOnly",
                 "PreviousOrderExternalID", "SelfTradeProtectionLevel", "BuilderID"} :
           s[f] = o[f]
    /\ o.ExpireTime = Some(s.ExpireTime)
    /\ o.Nonce = Some(s.Nonce)

CommonDomain(s, o) ==
    /\ s.Side \in {OrderSideBuy, OrderSideSell}
    /\ s.TimeInForce \in {TimeInForceGTT, TimeInForceIOC}
    /\ s.Type = OrderTypeLimit
    /\ ~s.ReduceOnly
    /\ IsNil(s.TpSlType) /\ IsNil(s.TakeProfit) /\ IsNil(s.StopLoss)
    /\ ~IsZero(s.ExpireTime)
    /\ o.Signer = "account"
    /\ IsNil(account.tradingFee[s.Market.Name])

\* the finished call and the call remembered before it are one call of each
\* builder on the same request of the common domain
BuilderPair ==
    /\ pc \in {"done", "failed"}
    /\ ~IsNil(prev)
    /\ prev.v.builder # builder
    /\ LET s == IF builder = "services" THEN params ELSE prev.v.params
           o == IF builder = "orders" THEN params ELSE prev.v.params
       IN  SameRequest(s, o) /\ CommonDomain(s, o)

SameAnswers ==
    /\ order_hash = prev.v.order_hash
    /\ OutcomeRecord.signature = prev.v.signature

C30_BuildersAgree ==
    BuilderPair =>
        /\ hashCalls = prev.v.hashCalls
        /\ hashCalls # <<>>
        /\ SameAnswers =>
               /\ (pc = "failed") = prev.v.failed
               /\ signCalls = prev.v.signCalls
               /\ order = prev.v.order

C30_Witness ==
    /\ BuilderPair
    /\ SameAnswers
    /\ builder = "orders"
    /\ pc = "done"
    /\ ~IsNil(params.OrderExternalID)
    /\ ~IsNil(params.BuilderFee)
    /\ params.TimeInForce = TimeInForceIOC
    /\ order = prev.v.order

====
